---- MODULE Spec2Model ----
(***************************************************************************)
(* Hybrid retrieval engine of the personal knowledge base: reciprocal rank *)
(* fusion, the lazily rebuilt BM25 index, context packing and the index    *)
(* synchronizer of BrainService.                                           *)
(***************************************************************************)
EXTENDS Integers, Sequences, FiniteSets, TLC

VARIABLES
    op,              \* the operation that produced the current state
    vector_weight,   \* HybridRetriever.vector_weight, in tenths
    bm25_weight,     \* HybridRetriever.bm25_weight, in tenths
    k,               \* the k of the current / last call
    vector_results,  \* the vector list of the last call
    bm25_results,    \* the lexical list of the last call
    merged,          \* the list the last call returned
    max_tokens,      \* ContextBuilder.max_tokens
    chars_per_token, \* ContextBuilder.chars_per_token, in halves of a character
    include_metadata,\* build's include_metadata argument
    results,         \* build's results argument
    context,         \* the text build returned, as its document sections
    files,           \* the vault: document id -> current content
    manifest,        \* SQLiteStore: document id -> checksum
    vector_index,    \* VectorStore: chunk id -> chunk
    bm25,            \* HybridRetriever._bm25: the index and what it was built from
    bm25_chunks,     \* HybridRetriever._bm25_chunks
    bm25_dirty,      \* HybridRetriever._bm25_dirty
    call,            \* arguments of the last retrieve, and the flag it found
    counts,          \* what the last sync_index returned
    in_sync,         \* a sync_index has returned and no file changed since
    resync,          \* the last operation was a sync_index called while in_sync
    removed,         \* documents a sync_index deleted, not indexed again since
    texts,           \* embed's texts argument
    cache,           \* EmbeddingService._cache: cache key -> embedding
    batch_size,      \* EmbeddingService.batch_size
    failures,        \* provider: failed attempts in a row, per batch of the call
    embeddings,      \* what the last embed returned, or that it raised
    api_calls,       \* provider attempts of the last embed, per batch
    response,        \* the text the completion backend returned
    extracted,       \* what extract_all returned, or that it raised
    link_chunks,     \* build_with_expansion's link_chunks argument
    pool,            \* the list build_with_expansion handed to build
    caller_chunks,   \* content of the list object a caller passes as corpus
    shared,          \* _bm25_chunks is that very list object
    threads          \* each thread's position inside retrieve, its locals

rrfVars == <<vector_weight, bm25_weight, k, vector_results, bm25_results, merged>>

buildVars == <<max_tokens, chars_per_token, include_metadata, results, context>>

storeVars == <<files, manifest, vector_index>>

bm25Vars == <<bm25, bm25_chunks, bm25_dirty>>

histVars == <<call, counts, in_sync, resync, removed>>

svcVars == <<storeVars, bm25Vars, histVars>>

embedVars == <<texts, cache, batch_size, failures, embeddings, api_calls>>

extractVars == <<response, extracted>>

expandVars == <<link_chunks, pool>>

aliasVars == <<caller_chunks, shared>>

concVars == <<threads>>

vars == <<op, rrfVars, buildVars, svcVars, embedVars, extractVars, expandVars,
          aliasVars, concVars>>

-----------------------------------------------------------------------------
(* Bounds *)

MaxLen == 3     \* longest fabricated result list handed to the fusion
MaxK == 2       \* largest k of a call
MaxResults == 3 \* longest result list handed to the context builder
MaxBatch == 2   \* largest batch_size of the embedding service
MaxItems == 2   \* most tasks, and most reminders, of one extraction
MaxPool == 2    \* longest result list handed to build_with_expansion

-----------------------------------------------------------------------------
(* Data model (core/models.py) *)

Docs == {"d1", "d2"}

\* Chunk: document_id, chunk_index and the revision of the text it carries.
Chunk(d, i, v) == [doc |-> d, idx |-> i, ver |-> v]

\* Chunk.id, "doc_id:chunk_idx".
ChunkId(c) == <<c.doc, c.idx>>

SearchResult(c, s, src) == [chunk |-> c, score |-> s, source |-> src]

-----------------------------------------------------------------------------
(* Exact arithmetic for fused scores.  A fused score is a rational number; *)
(* it is kept as an integer count of units of 1 / (10 * ScoreDen), where   *)
(* ScoreDen is a common multiple of every denominator rrf_k + rank + 1     *)
(* that can occur, and the weights are counted in tenths.                  *)

RrfK == 60

RECURSIVE Gcd(_, _)
Gcd(a, b) == IF b = 0 THEN a ELSE Gcd(b, a % b)

Lcm(a, b) == (a \div Gcd(a, b)) * b

\* Ranks 0 .. RankBound - 1 have an exact contribution.
RankBound == MaxLen + 1

RECURSIVE LcmUpTo(_)
LcmUpTo(n) == IF n = 0 THEN 1 ELSE Lcm(LcmUpTo(n - 1), RrfK + n)

ScoreDen == LcmUpTo(RankBound)

\* The configured weight pairs (vector_weight, bm25_weight), in tenths.
Weights == {<<7, 3>>, <<5, 5>>}

-----------------------------------------------------------------------------
(* HybridRetriever._reciprocal_rank_fusion *)

\* weight / (rrf_k + rank + 1) for the zero-based rank.
RrfScoreOffByOne(w, rank) == w * (ScoreDen \div (RrfK + rank + 2))

RrfScore(w, rank) == w * (ScoreDen \div (RrfK + rank + 1))

\* Position of chunk id in the dict (insertion order), 0 when absent.
IndexOfId(scores, id) ==
    IF \E i \in 1..Len(scores) : ChunkId(scores[i].chunk) = id
    THEN CHOOSE i \in 1..Len(scores) : ChunkId(scores[i].chunk) = id
    ELSE 0

\* scores[chunk_id] = (result.chunk, old + rrf_score): an existing key keeps
\* its place in the dict, a new key goes to the end.
AddScoreNoMerge(scores, chunk, rrf_score) ==
    Append(scores, [chunk |-> chunk, score |-> rrf_score])

AddScore(scores, chunk, rrf_score) ==
    LET i == IndexOfId(scores, ChunkId(chunk))
    IN  IF i # 0
        THEN [scores EXCEPT ![i] = [chunk |-> chunk,
                                    score |-> scores[i].score + rrf_score]]
        ELSE Append(scores, [chunk |-> chunk, score |-> rrf_score])

\* for rank, result in enumerate(rl): ...  (from position n onward)
RECURSIVE AddResults(_, _, _, _)
AddResults(scores, rl, w, n) ==
    IF n > Len(rl) THEN scores
    ELSE AddResults(AddScore(scores, rl[n].chunk, RrfScore(w, n - 1)),
                    rl, w, n + 1)

\* sorted(..., key=score, reverse=True) is stable: an entry goes behind every
\* entry whose score is at least its own.
RECURSIVE InsertDescTiesFirst(_, _)
InsertDescTiesFirst(s, e) ==
    IF s = <<>> THEN <<e>>
    ELSE IF Head(s).score > e.score
         THEN <<Head(s)>> \o InsertDescTiesFirst(Tail(s), e)
         ELSE <<e>> \o s

RECURSIVE InsertDesc(_, _)
InsertDesc(s, e) ==
    IF s = <<>> THEN <<e>>
    ELSE IF Head(s).score >= e.score
         THEN <<Head(s)>> \o InsertDesc(Tail(s), e)
         ELSE <<e>> \o s

RECURSIVE SortFrom(_, _, _)
SortFrom(acc, seq, n) ==
    IF n > Len(seq) THEN acc
    ELSE SortFrom(InsertDesc(acc, seq[n]), seq, n + 1)

SortByScoreDesc(seq) == SortFrom(<<>>, seq, 1)

\* seq[:n]
Take(seq, n) == SubSeq(seq, 1, IF n < Len(seq) THEN n ELSE Len(seq))

\* The dict "scores" after both loops, in insertion order.
FusedScores(vr, br, vw, bw) ==
    AddResults(AddResults(<<>>, vr, vw, 1), br, bw, 1)

ReciprocalRankFusion(vr, br, kk, vw, bw) ==
    LET sorted_results == SortByScoreDesc(FusedScores(vr, br, vw, bw))
        top == Take(sorted_results, kk)
    IN  [i \in 1..Len(top) |->
            SearchResult(top[i].chunk, top[i].score, "hybrid")]

-----------------------------------------------------------------------------
(* ContextBuilder (intelligence/context_builder.py).  A text is modelled   *)
(* by its length and by what it is made of: the returned context is the    *)
(* sequence of its document sections, each with the header it starts with  *)
(* and the chunk texts it joins.                                           *)

\* The chunk a result carries, as far as build reads it.
BuildChunk(path, idx, clen, hlen) ==
    [document_path |-> path, chunk_index |-> idx,
     content_len |-> clen, header_len |-> hlen]

\* len(document_path) of the two documents.
PathLen(path) == IF path = "p" THEN 1 ELSE 60

\* self.max_chars = int(max_tokens * chars_per_token)
MaxChars(mt, cpt2) == (mt * cpt2) \div 2

\* len(f"\n--- From: {doc_path} ---\n")
SectionChars(path) == 11 + PathLen(path) + 5

\* len(text): f"[{chunk.header_path}]\n{chunk.content}" or chunk.content
TextLen(c, meta) ==
    IF meta /\ c.header_len > 0
    THEN 1 + c.header_len + 2 + c.content_len
    ELSE c.content_len

\* doc_chunks.keys(): the document paths in order of first appearance.
RECURSIVE DocOrder(_, _, _)
DocOrder(rs, n, acc) ==
    IF n > Len(rs) THEN acc
    ELSE LET dp == rs[n].chunk.document_path
         IN  DocOrder(rs, n + 1,
                      IF \E i \in 1..Len(acc) : acc[i] = dp
                      THEN acc ELSE Append(acc, dp))

\* doc_chunks[doc_path]: the results of one document, in input order.
RECURSIVE ResultsOfDoc(_, _, _)
ResultsOfDoc(rs, dp, n) ==
    IF n > Len(rs) THEN <<>>
    ELSE IF rs[n].chunk.document_path = dp
         THEN <<rs[n]>> \o ResultsOfDoc(rs, dp, n + 1)
         ELSE ResultsOfDoc(rs, dp, n + 1)

\* chunks left in input order.
InsertAtEnd(s, e) == Append(s, e)

\* sorted(chunks, key=chunk_index): stable, ascending.
RECURSIVE InsertByIndex(_, _)
InsertByIndex(s, e) ==
    IF s = <<>> THEN <<e>>
    ELSE IF Head(s).chunk.chunk_index <= e.chunk.chunk_index
         THEN <<Head(s)>> \o InsertByIndex(Tail(s), e)
         ELSE <<e>> \o s

RECURSIVE SortByIndexFrom(_, _, _)
SortByIndexFrom(acc, seq, n) ==
    IF n > Len(seq) THEN acc
    ELSE SortByIndexFrom(InsertByIndex(acc, seq[n]), seq, n + 1)

SortByIndex(seq) == SortByIndexFrom(<<>>, seq, 1)

\* A chunk text appended to chunk_texts: the chunk, the emitted length and
\* whether it is the whole text or text[:remaining] + "...".
FullText(c, meta) ==
    [chunk |-> c, full |-> TRUE, kept |-> TextLen(c, meta),
     chars |-> TextLen(c, meta)]

TruncatedText(c, remaining) ==
    [chunk |-> c, full |-> FALSE, kept |-> remaining, chars |-> remaining + 3]

\* not (current_chars + section_chars + len(text) + 2 > self.max_chars)
FitsIgnoringHeader(cur, sec, tlen, maxc) == cur + tlen + 2 <= maxc

Fits(cur, sec, tlen, maxc) == cur + sec + tlen + 2 <= maxc

\* if remaining > 0:
WorthTruncatingAlways(remaining) == remaining > 0

\* if remaining > 100:
WorthTruncating(remaining) == remaining > 100

\* The chunk loop of one document, from position n of the sorted results:
\* returns chunk_texts and current_chars as the loop leaves them.
RECURSIVE PackChunks(_, _, _, _, _, _, _)
PackChunks(sorted, n, chunk_texts, cur, sec, maxc, meta) ==
    IF n > Len(sorted) THEN [texts |-> chunk_texts, cur |-> cur]
    ELSE LET c == sorted[n].chunk
             tlen == TextLen(c, meta)
         IN  IF ~Fits(cur, sec, tlen, maxc)
             THEN LET remaining == maxc - cur - sec - 10
                  IN  IF WorthTruncating(remaining)
                      THEN [texts |-> Append(chunk_texts, TruncatedText(c, remaining)),
                            cur |-> cur]
                      ELSE [texts |-> chunk_texts, cur |-> cur]
             ELSE PackChunks(sorted, n + 1, Append(chunk_texts, FullText(c, meta)),
                             cur + tlen + 2, sec, maxc, meta)

\* The document loop, from position n of the document order.
RECURSIVE PackDocs(_, _, _, _, _, _, _)
PackDocs(rs, docs, n, parts, cur, maxc, meta) ==
    IF n > Len(docs) THEN parts
    ELSE LET sec == SectionChars(docs[n])
             packed == PackChunks(SortByIndex(ResultsOfDoc(rs, docs[n], 1)),
                                  1, <<>>, cur, sec, maxc, meta)
             added == packed.texts # <<>>
             parts2 == IF added
                       THEN Append(parts, [document_path |-> docs[n],
                                           section_chars |-> sec,
                                           texts |-> packed.texts])
                       ELSE parts
             cur2 == IF added THEN packed.cur + sec ELSE packed.cur
         IN  IF cur2 >= maxc THEN parts2
             ELSE PackDocs(rs, docs, n + 1, parts2, cur2, maxc, meta)

\* ContextBuilder.build: the sections of the returned text ("" is <<>>).
Build(rs, maxc, meta) ==
    IF rs = <<>> THEN <<>>
    ELSE PackDocs(rs, DocOrder(rs, 1, <<>>), 1, <<>>, 0, maxc, meta)

RECURSIVE SumChars(_, _)
SumChars(chunk_texts, n) ==
    IF n > Len(chunk_texts) THEN 0 ELSE chunk_texts[n].chars + SumChars(chunk_texts, n + 1)

\* len(doc_section + "\n\n".join(chunk_texts))
PartLen(part) ==
    part.section_chars + SumChars(part.texts, 1) + 2 * (Len(part.texts) - 1)

RECURSIVE SumParts(_, _)
SumParts(parts, n) ==
    IF n > Len(parts) THEN 0 ELSE PartLen(parts[n]) + SumParts(parts, n + 1)

\* len("\n".join(context_parts))
ContextLen(parts) ==
    IF parts = <<>> THEN 0 ELSE SumParts(parts, 1) + (Len(parts) - 1)

-----------------------------------------------------------------------------
(* ContextBuilder.build_with_expansion                                     *)

\* A chunk with its outbound links; build reads the other fields.
LinkedChunk(path, idx, links) ==
    [document_path |-> path, chunk_index |-> idx, content_len |-> 50,
     header_len |-> 0, links |-> links]

\* SearchResult(chunk, score, source); equality compares all three fields.
ScoredResult(c, s, src) == [chunk |-> c, score |-> s, source |-> src]

\* all_links.update(result.chunk.links) over the results.
AllLinks(rs) == UNION {rs[i].chunk.links : i \in 1..Len(rs)}

\* for linked_result in link_chunks[link][:2]:
\*     if linked_result not in expanded_results: append
RECURSIVE AppendNew(_, _, _)
AppendNew(expanded, linked, n) ==
    IF n > Len(linked) \/ n > 2 THEN expanded
    ELSE AppendNew(IF \E i \in 1..Len(expanded) : expanded[i] = linked[n]
                   THEN expanded ELSE Append(expanded, linked[n]),
                   linked, n + 1)

\* for link in all_links: if link in link_chunks: ...
\* order is the iteration order of the set all_links.
RECURSIVE AddLinked(_, _, _, _)
AddLinked(expanded, order, lc, n) ==
    IF n > Len(order) THEN expanded
    ELSE AddLinked(IF order[n] \in DOMAIN lc
                   THEN AppendNew(expanded, lc[order[n]], 1)
                   ELSE expanded,
                   order, lc, n + 1)

\* The iteration orders of a set of links.
OrdersOf(S) ==
    {o \in UNION {[1..m -> S] : m \in {Cardinality(S)}} :
        \A i, j \in 1..Len(o) : o[i] = o[j] => i = j}

\* expanded_results.sort(key=score, reverse=True) of the expanded list, for
\* one iteration order of all_links.
ExpandedPool(rs, lc, order) == SortByScoreDesc(AddLinked(rs, order, lc, 1))

-----------------------------------------------------------------------------
(* The stores behind BrainService and the parser (brain.data).             *)

\* The contents a file of each document can have.
FileContents(d) == IF d = "d1" THEN {1, 2} ELSE {3}

\* MarkdownParser.chunk: the number of chunks a content is cut into.
ChunkCount(content) == IF content = 2 THEN 2 ELSE 1

\* MarkdownParser.chunk(doc): chunk_index 0 .. n-1 of the parsed content.
ParseChunks(d, content) ==
    [i \in 1..ChunkCount(content) |-> Chunk(d, i - 1, content)]

\* Document.checksum and hashlib.md5(content.encode()).hexdigest()
Checksum(content) == <<"md5", content>>

\* A function without the keys of S (dict deletion).
Without(f, S) == [x \in (DOMAIN f) \ S |-> f[x]]

\* dict[key] = value
With(f, key, value) ==
    [x \in (DOMAIN f) \cup {key} |-> IF x = key THEN value ELSE f[x]]

NoEntries == [x \in {} |-> x]

\* VectorStore.upsert(chunks, embeddings): keyed by chunk id.
RECURSIVE Upsert(_, _, _)
Upsert(index, chunks, n) ==
    IF n > Len(chunks) THEN index
    ELSE Upsert(With(index, ChunkId(chunks[n]), chunks[n]), chunks, n + 1)

\* VectorStore.delete_by_document(doc_id)
DeleteByDocument(index, d) ==
    Without(index, {id \in DOMAIN index : index[id].doc = d})

\* The chunk ids in a fixed order, to list the content of the index.
AllChunkIds == <<<<"d1", 0>>, <<"d1", 1>>, <<"d2", 0>>, <<"d2", 1>>>>

RECURSIVE ListIndex(_, _)
ListIndex(index, n) ==
    IF n > Len(AllChunkIds) THEN <<>>
    ELSE IF AllChunkIds[n] \in DOMAIN index
         THEN <<index[AllChunkIds[n]]>> \o ListIndex(index, n + 1)
         ELSE ListIndex(index, n + 1)

Reverse(seq) == [i \in 1..Len(seq) |-> seq[Len(seq) + 1 - i]]

\* VectorStore.search(query_embedding, k, where=None): the k nearest chunks
\* of the index; the similarity order is one of two orders of the index.
SearchOrders == {"asc"}

VectorSearch(index, n, order) ==
    LET all == IF order = "asc" THEN ListIndex(index, 1)
               ELSE Reverse(ListIndex(index, 1))
        top == Take(all, n)
    IN  [i \in 1..Len(top) |-> SearchResult(top[i], <<0, 1>>, "vector")]

-----------------------------------------------------------------------------
(* EmbeddingService (intelligence/embeddings.py)                           *)

Texts == {"", "q"}

\* _cache_key(text): sha256 of "model:text".
CacheKey(text) == <<"sha256", "model", text>>

\* The provider's embedding of a text.
Emb(text) == <<"emb", text>>

\* stop_after_attempt(3)
StopAfterAttempt == 3

Min(a, b) == IF a < b THEN a ELSE b

\* _call_api(batch) retried without a stop condition.
CallApiNoStop(batch, f) ==
    [attempts |-> f + 1,
     raised |-> FALSE,
     data |-> [j \in 1..Len(batch) |-> Emb(batch[j])]]

\* _call_api(batch) under @retry: the provider fails f times in a row before
\* it answers; the call is attempted until it answers or the attempts are
\* used up, and then raises.
CallApi(batch, f) ==
    [attempts |-> Min(f + 1, StopAfterAttempt),
     raised |-> f >= StopAfterAttempt,
     data |-> [j \in 1..Len(batch) |-> Emb(batch[j])]]

UncachedIndicesAll(tx, c, i) == [n \in 1..Len(tx) |-> n]

\* The cache check loop: the indices of the texts that are not cached, and
\* the result list with the cached embeddings and [] placeholders.
RECURSIVE UncachedIndices(_, _, _)
UncachedIndices(tx, c, i) ==
    IF i > Len(tx) THEN <<>>
    ELSE IF CacheKey(tx[i]) \in DOMAIN c
         THEN UncachedIndices(tx, c, i + 1)
         ELSE <<i>> \o UncachedIndices(tx, c, i + 1)

Placeholders(tx, c) ==
    [i \in 1..Len(tx) |->
        IF CacheKey(tx[i]) \in DOMAIN c THEN c[CacheKey(tx[i])] ELSE <<>>]

\* for j, emb in enumerate(embeddings): idx = uncached_indices[j]
RECURSIVE PlaceBatchNoOffset(_, _, _, _, _, _)
PlaceBatchNoOffset(st, tx, unc, batch_start, data, j) ==
    IF j > Len(data) THEN st
    ELSE LET idx == unc[j]
         IN  PlaceBatchNoOffset(
                 [results |-> [st.results EXCEPT ![idx] = data[j]],
                  cache |-> With(st.cache, CacheKey(tx[idx]), data[j])],
                 tx, unc, batch_start, data, j + 1)

\* for j, emb in enumerate(embeddings):
\*     idx = uncached_indices[batch_start + j]; results[idx] = emb;
\*     self._cache[key] = emb
\* batch_start counts from 0, j and the sequences from 1.
RECURSIVE PlaceBatch(_, _, _, _, _, _)
PlaceBatch(st, tx, unc, batch_start, data, j) ==
    IF j > Len(data) THEN st
    ELSE LET idx == unc[batch_start + j]
         IN  PlaceBatch(
                 [results |-> [st.results EXCEPT ![idx] = data[j]],
                  cache |-> With(st.cache, CacheKey(tx[idx]), data[j])],
                 tx, unc, batch_start, data, j + 1)

\* for batch_start in range(0, len(uncached_texts), self.batch_size): ...
\* n is the number of the batch; a batch that raises ends the call.
RECURSIVE FetchBatches(_, _, _, _, _, _, _)
FetchBatches(st, tx, unc, batch_start, bs, fl, n) ==
    IF batch_start >= Len(unc) THEN st
    ELSE LET last == Min(batch_start + bs, Len(unc))
             batch == [j \in 1..(last - batch_start) |-> tx[unc[batch_start + j]]]
             r == CallApi(batch, fl[n])
             called == [st EXCEPT !.calls = Append(st.calls, r.attempts)]
         IN  IF r.raised
             THEN [called EXCEPT !.raised = TRUE, !.results = <<>>]
             ELSE LET placed == PlaceBatch([results |-> st.results,
                                            cache |-> st.cache],
                                           tx, unc, batch_start, r.data, 1)
                  IN  FetchBatches([called EXCEPT !.results = placed.results,
                                                  !.cache = placed.cache],
                                   tx, unc, batch_start + bs, bs, fl, n + 1)

\* EmbeddingService.embed(texts): the list returned or that the call raised,
\* the cache afterwards and the provider attempts made per batch.
Embed(tx, c, bs, fl) ==
    IF tx = <<>>
    THEN [results |-> <<>>, cache |-> c, calls |-> <<>>, raised |-> FALSE]
    ELSE FetchBatches([results |-> Placeholders(tx, c), cache |-> c,
                       calls |-> <<>>, raised |-> FALSE],
                      tx, UncachedIndices(tx, c, 1), 0, bs, fl, 1)

NoEmbeddings == [raised |-> FALSE, values |-> <<>>]

-----------------------------------------------------------------------------
(* ClaudeClient.extract and StructuredExtractor.extract_all                *)

\* The date strings an extraction can carry: JSON null, the empty string, a
\* date, a date with a time, and a phrase that is not a date.
DateStrings == {"null", "", "2024-01-05", "2024-01-05T10:00:00", "tomorrow"}

\* `if t.due_date`: None and "" are false.
DateGiven(dstr) == dstr \notin {"null", ""}

\* datetime.strptime(s, "%Y-%m-%d") returns for a plain date and raises
\* ValueError otherwise.
StrptimeRaises(dstr) == dstr # "2024-01-05"

\* datetime.fromisoformat(s) returns for a date and for a date with a time
\* and raises ValueError otherwise.
FromIsoformatRaises(dstr) == dstr \notin {"2024-01-05", "2024-01-05T10:00:00"}

\* json.loads(json_str) and schema.model_validate(data) inside the try
\* block: the ExtractionResult, or None when either raises.
Extract(resp) ==
    IF ~resp.is_json THEN [raised |-> FALSE, none |-> TRUE]
    ELSE IF ~resp.matches_schema THEN [raised |-> FALSE, none |-> TRUE]
    ELSE [raised |-> FALSE, none |-> FALSE, tasks |-> resp.tasks,
          reminders |-> resp.reminders]

EmptyExtraction == [raised |-> FALSE, tasks |-> <<>>, reminders |-> <<>>]

\* StructuredExtractor.extract_all: the dict of domain models (each task and
\* reminder by its parsed date), or that the call raised.
ExtractAll(resp) ==
    LET result == Extract(resp)
    IN  IF result.raised THEN [raised |-> TRUE, tasks |-> <<>>, reminders |-> <<>>]
        ELSE IF result.none THEN EmptyExtraction
        ELSE IF \/ \E i \in 1..Len(result.tasks) :
                      DateGiven(result.tasks[i]) /\ StrptimeRaises(result.tasks[i])
                \/ \E i \in 1..Len(result.reminders) :
                      /\ DateGiven(result.reminders[i])
                      /\ FromIsoformatRaises(result.reminders[i])
        THEN [raised |-> TRUE, tasks |-> <<>>, reminders |-> <<>>]
        ELSE [raised |-> FALSE,
              tasks |-> [i \in 1..Len(result.tasks) |->
                            IF DateGiven(result.tasks[i])
                            THEN <<"datetime", result.tasks[i]>> ELSE "None"],
              reminders |-> [i \in 1..Len(result.reminders) |->
                            IF DateGiven(result.reminders[i])
                            THEN <<"datetime", result.reminders[i]>>
                            ELSE "None"]]

NoResponse ==
    [is_json |-> FALSE, matches_schema |-> FALSE, tasks |-> <<>>,
     reminders |-> <<>>]

NotExtracted == EmptyExtraction

-----------------------------------------------------------------------------
(* HybridRetriever: the BM25 index and retrieve                            *)

NoIndex == [built |-> FALSE, docs |-> <<>>]

\* chunks_for_bm25: None, or a list of chunks.
NoCorpus == [given |-> FALSE, chunks |-> <<>>]

Corpus(chunks) == [given |-> TRUE, chunks |-> chunks]

\* Python truth of chunks_for_bm25: neither None nor [].
Truthy(corpus) == corpus.given /\ corpus.chunks # <<>>

\* _build_bm25_index(chunks): the retriever's <<_bm25, _bm25_chunks,
\* _bm25_dirty>> afterwards.
BuildBm25Index(chunks, dirty) ==
    IF chunks = <<>>
    THEN [bm25 |-> NoIndex, chunks |-> <<>>, dirty |-> dirty]
    ELSE [bm25 |-> [built |-> TRUE, docs |-> chunks], chunks |-> chunks,
          dirty |-> FALSE]

\* chunks_for_bm25 and (self._bm25_dirty or chunks_for_bm25 != self._bm25_chunks)
NeedsRebuildIgnoringDirty(corpus, dirty, chunks) ==
    Truthy(corpus) /\ corpus.chunks # chunks

NeedsRebuild(corpus, dirty, chunks) ==
    Truthy(corpus) /\ (dirty \/ corpus.chunks # chunks)

AfterRebuildDecisionGiven(corpus, b, chunks, dirty) ==
    IF corpus.given /\ (dirty \/ corpus.chunks # chunks)
    THEN BuildBm25Index(corpus.chunks, dirty)
    ELSE [bm25 |-> b, chunks |-> chunks, dirty |-> dirty]

\* The retriever after the rebuild decision of retrieve (lines 73-75).
AfterRebuildDecision(corpus, b, chunks, dirty) ==
    IF (Truthy(corpus) \/ chunks # <<>>) /\ NeedsRebuild(corpus, dirty, chunks)
    THEN BuildBm25Index(corpus.chunks, dirty)
    ELSE [bm25 |-> b, chunks |-> chunks, dirty |-> dirty]

Queries == {"", "q"}

\* self._bm25.get_scores(query_tokens): one score per document the index was
\* built from.  An empty token list scores everything 0; for another query
\* the chunks of some set of documents score above 0, the first chunk of a
\* document higher than its later ones.
ScoreVectors(query, b) ==
    IF query = "" THEN {[i \in 1..Len(b.docs) |-> 0]}
    ELSE {[i \in 1..Len(b.docs) |->
              IF b.docs[i].doc \in hits
              THEN (IF b.docs[i].idx = 0 THEN 2 ELSE 1)
              ELSE 0] : hits \in SUBSET Docs}

\* list(zip(self._bm25_chunks, scores))
Zip(chunks, scores) ==
    LET n == IF Len(chunks) < Len(scores) THEN Len(chunks) ELSE Len(scores)
    IN  [i \in 1..n |-> [chunk |-> chunks[i], score |-> scores[i]]]

SeqMax(scores) ==
    CHOOSE m \in {scores[i] : i \in 1..Len(scores)} :
        \A i \in 1..Len(scores) : scores[i] <= m

KeepAll(scored, max_score, n) ==
    [i \in 1..Len(scored) |->
        SearchResult(scored[i].chunk, <<scored[i].score, max_score>>, "bm25")]

RECURSIVE KeepPositive(_, _, _)
KeepPositive(scored, max_score, n) ==
    IF n > Len(scored) THEN <<>>
    ELSE IF scored[n].score > 0
         THEN <<SearchResult(scored[n].chunk,
                             <<scored[n].score, max_score>>, "bm25")>>
              \o KeepPositive(scored, max_score, n + 1)
         ELSE KeepPositive(scored, max_score, n + 1)

\* The lexical list of retrieve (lines 77-92) for the scores the index gave.
LexicalResults(b, chunks, scores, kk) ==
    IF b.built /\ chunks # <<>>
    THEN LET scored == Take(SortByScoreDesc(Zip(chunks, scores)), kk * 2)
             max_score == IF SeqMax(scores) > 0 THEN SeqMax(scores) ELSE 1
         IN  KeepPositive(scored, max_score, 1)
    ELSE <<>>

-----------------------------------------------------------------------------
(* BrainService (service.py)                                               *)

NoCall == [query |-> "", corpus |-> NoCorpus, dirty_before |-> TRUE]

NoCounts == [added |-> 0, updated |-> 0, deleted |-> 0]

\* The operation is no retrieve: what the last retrieve returned is gone.
NoRetrieval ==
    /\ k' = 0
    /\ vector_results' = <<>>
    /\ bm25_results' = <<>>
    /\ merged' = <<>>
    /\ call' = NoCall
    /\ UNCHANGED <<vector_weight, bm25_weight>>
    /\ UNCHANGED <<buildVars, embedVars, extractVars, expandVars,
                   aliasVars, concVars>>

\* _index_file(path) for the file of document d with the given content:
\* the stores afterwards.
IndexFileNoManifest(st, d, content) ==
    LET chunks == ParseChunks(d, content)
    IN  [manifest |-> st.manifest,
         index |-> IF chunks # <<>> THEN Upsert(st.index, chunks, 1)
                   ELSE st.index]

IndexFile(st, d, content) ==
    LET chunks == ParseChunks(d, content)
    IN  [manifest |-> With(st.manifest, d, Checksum(content)),
         index |-> IF chunks # <<>> THEN Upsert(st.index, chunks, 1)
                   ELSE st.index]

\* for doc_id in added_ids: self._index_file(current_paths[doc_id])
RECURSIVE ProcessAdditions(_, _)
ProcessAdditions(st, ids) ==
    IF ids = {} THEN st
    ELSE LET d == CHOOSE x \in ids : TRUE
         IN  ProcessAdditions(IndexFile(st, d, files[d]), ids \ {d})

UpdatedIdsAll(existing_checksums, potential_updated) == potential_updated

\* The common ids whose current checksum differs from the manifest's.
UpdatedIds(existing_checksums, potential_updated) ==
    {d \in potential_updated : Checksum(files[d]) # existing_checksums[d]}

\* Re-index: delete_by_document, then _index_file.
RECURSIVE ProcessUpdates(_, _)
ProcessUpdates(st, ids) ==
    IF ids = {} THEN st
    ELSE LET d == CHOOSE x \in ids : TRUE
             cleared == [manifest |-> st.manifest,
                         index |-> DeleteByDocument(st.index, d)]
         IN  ProcessUpdates(IndexFile(cleared, d, files[d]), ids \ {d})

\* for doc_id in deleted_ids: delete_document only
RECURSIVE ProcessDeletionsManifestOnly(_, _)
ProcessDeletionsManifestOnly(st, ids) ==
    IF ids = {} THEN st
    ELSE LET d == CHOOSE x \in ids : TRUE
         IN  ProcessDeletionsManifestOnly(
                 [manifest |-> Without(st.manifest, {d}), index |-> st.index],
                 ids \ {d})

\* for doc_id in deleted_ids: delete_by_document, delete_document
RECURSIVE ProcessDeletions(_, _)
ProcessDeletions(st, ids) ==
    IF ids = {} THEN st
    ELSE LET d == CHOOSE x \in ids : TRUE
         IN  ProcessDeletions([manifest |-> Without(st.manifest, {d}),
                               index |-> DeleteByDocument(st.index, d)],
                              ids \ {d})

Stores == [manifest |-> manifest, index |-> vector_index]

\* BrainService.sync_index
SyncIndex ==
    LET existing_checksums == manifest
        existing_ids == DOMAIN existing_checksums
        current_ids == DOMAIN files
        added_ids == current_ids \ existing_ids
        deleted_ids == existing_ids \ current_ids
        potential_updated == current_ids \cap existing_ids
        updated_ids == UpdatedIds(existing_checksums, potential_updated)
        st == ProcessDeletions(
                  ProcessUpdates(ProcessAdditions(Stores, added_ids), updated_ids),
                  deleted_ids)
        added == Cardinality(added_ids)
        updated == Cardinality(updated_ids)
        deleted == Cardinality(deleted_ids)
    IN  /\ op' = "sync"
        /\ manifest' = st.manifest
        /\ vector_index' = st.index
        /\ bm25_dirty' = IF added > 0 \/ updated > 0 \/ deleted > 0
                         THEN TRUE ELSE bm25_dirty
        /\ counts' = [added |-> added, updated |-> updated, deleted |-> deleted]
        /\ in_sync' = TRUE
        /\ resync' = in_sync
        /\ removed' = (removed \cup deleted_ids) \ (added_ids \cup updated_ids)
        /\ UNCHANGED <<files, bm25, bm25_chunks>>
        /\ NoRetrieval

\* BrainService.rebuild_index
RebuildIndex ==
    LET st == ProcessAdditions([manifest |-> manifest, index |-> NoEntries],
                               DOMAIN files)
    IN  /\ op' = "rebuild"
        /\ manifest' = st.manifest
        /\ vector_index' = st.index
        /\ bm25_dirty' = TRUE
        /\ removed' = removed \ DOMAIN files
        /\ counts' = NoCounts
        /\ resync' = FALSE
        /\ UNCHANGED <<files, bm25, bm25_chunks, in_sync>>
        /\ NoRetrieval

\* watch_vault.on_change(change, path): the event tells what the file of
\* document d is now.
WatchVault ==
    \E d \in Docs :
        LET st == IF d \notin DOMAIN files
                  THEN [manifest |-> Without(manifest, {d}),
                        index |-> DeleteByDocument(vector_index, d)]
                  ELSE IndexFile(Stores, d, files[d])
        IN  /\ op' = "watch"
            /\ manifest' = st.manifest
            /\ vector_index' = st.index
            /\ bm25_dirty' = TRUE
            /\ removed' = removed \ (DOMAIN files \cap {d})
            /\ counts' = NoCounts
            /\ resync' = FALSE
            /\ UNCHANGED <<files, bm25, bm25_chunks, in_sync>>
            /\ NoRetrieval

\* BrainService.capture: writes the note file, then indexes it.
Capture ==
    \E d \in Docs : \E content \in FileContents(d) :
        /\ d \notin DOMAIN files
        /\ op' = "capture"
        /\ files' = With(files, d, content)
        /\ LET st == IndexFile(Stores, d, content)
           IN  /\ manifest' = st.manifest
               /\ vector_index' = st.index
        /\ in_sync' = FALSE
        /\ resync' = FALSE
        /\ removed' = removed \ {d}
        /\ counts' = NoCounts
        /\ UNCHANGED <<bm25, bm25_chunks, bm25_dirty>>
        /\ NoRetrieval

\* The user edits the vault: a file is written or removed.
EditVault ==
    /\ \E d \in Docs :
          \/ \E content \in FileContents(d) :
                /\ (d \in DOMAIN files => files[d] # content)
                /\ files' = With(files, d, content)
          \/ /\ d \in DOMAIN files
             /\ files' = Without(files, {d})
    /\ op' = "edit"
    /\ in_sync' = FALSE
    /\ resync' = FALSE
    /\ counts' = NoCounts
    /\ UNCHANGED <<manifest, vector_index, bm25Vars, removed>>
    /\ NoRetrieval

\* The corpus a caller reads from the index, and two lists of its own.
CurrentCorpus == ListIndex(vector_index, 1)

FixedCorpora == {}

CorpusArgs ==
    {NoCorpus, Corpus(<<>>), Corpus(CurrentCorpus)}
        \cup {Corpus(c) : c \in FixedCorpora}

\* retrieve after the query is embedded (lines 69-105): what it returns and
\* the retriever it leaves, one outcome per score vector of the index.
RetrieveOutcomes(query, kk, corpus, order, index, b, chunks, dirty, vw, bw) ==
    LET vr == VectorSearch(index, kk * 2, order)
        entered == Truthy(corpus) \/ chunks # <<>>
        r == AfterRebuildDecision(corpus, b, chunks, dirty)
    IN  {LET br == IF entered
                   THEN LexicalResults(r.bm25, r.chunks, scores, kk)
                   ELSE <<>>
         IN  [vector_results |-> vr, bm25_results |-> br,
              merged |-> ReciprocalRankFusion(vr, br, kk, vw, bw),
              bm25 |-> r.bm25, chunks |-> r.chunks, dirty |-> r.dirty] :
            scores \in ScoreVectors(query, r.bm25)}

\* HybridRetriever.retrieve(query, k, where=None, chunks_for_bm25), the query
\* embedded.
Retrieve ==
    \E query \in Queries, kk \in 1..MaxK, corpus \in CorpusArgs,
       order \in SearchOrders :
        \E out \in RetrieveOutcomes(query, kk, corpus, order, vector_index,
                                    bm25, bm25_chunks, bm25_dirty,
                                    vector_weight, bm25_weight) :
            /\ op' = "retrieve"
            /\ k' = kk
            /\ vector_results' = out.vector_results
            /\ bm25_results' = out.bm25_results
            /\ merged' = out.merged
            /\ bm25' = out.bm25
            /\ bm25_chunks' = out.chunks
            /\ bm25_dirty' = out.dirty
            /\ call' = [query |-> query, corpus |-> corpus,
                        dirty_before |-> bm25_dirty]
            /\ counts' = NoCounts
            /\ resync' = FALSE
            /\ UNCHANGED <<vector_weight, bm25_weight, storeVars,
                           in_sync, removed>>
            /\ UNCHANGED <<buildVars, embedVars, extractVars, expandVars,
                   aliasVars, concVars>>

\* HybridRetriever.retrieve when embed_single(query), its first statement,
\* raises: the call ends there.
RetrieveRaises ==
    /\ op' = "retrieve_raised"
    /\ counts' = NoCounts
    /\ resync' = FALSE
    /\ UNCHANGED <<storeVars, bm25Vars, in_sync, removed>>
    /\ NoRetrieval

-----------------------------------------------------------------------------
(* Initial values: each component as its constructor leaves it.          *)

BuildIdle ==
    /\ max_tokens = 0
    /\ chars_per_token = 0
    /\ include_metadata = FALSE
    /\ results = <<>>
    /\ context = <<>>

RrfIdle ==
    /\ vector_weight = 0
    /\ bm25_weight = 0
    /\ k = 0
    /\ vector_results = <<>>
    /\ bm25_results = <<>>
    /\ merged = <<>>

ServiceIdle ==
    /\ files = NoEntries
    /\ manifest = NoEntries
    /\ vector_index = NoEntries
    /\ bm25 = NoIndex
    /\ bm25_chunks = <<>>
    /\ bm25_dirty = TRUE
    /\ call = NoCall
    /\ counts = NoCounts
    /\ in_sync = FALSE
    /\ resync = FALSE
    /\ removed = {}

\* No caller holds a list, no thread is inside retrieve.
AliasIdle ==
    /\ caller_chunks = <<>>
    /\ shared = FALSE

ConcIdle == threads = <<>>

ExpandIdle ==
    /\ link_chunks = NoEntries
    /\ pool = <<>>

ExtractIdle ==
    /\ response = NoResponse
    /\ extracted = NotExtracted

EmbedIdle ==
    /\ texts = <<>>
    /\ cache = NoEntries
    /\ batch_size = 1
    /\ failures = <<>>
    /\ embeddings = NoEmbeddings
    /\ api_calls = <<>>

-----------------------------------------------------------------------------
(* The service on a vault that is edited while it runs                    *)

\* BrainService.__init__ on an empty vault and empty stores.
Init ==
    /\ op = "init"
    /\ vector_weight = 7
    /\ bm25_weight = 3
    /\ k = 0
    /\ vector_results = <<>>
    /\ bm25_results = <<>>
    /\ merged = <<>>
    /\ BuildIdle
    /\ ServiceIdle
    /\ EmbedIdle
    /\ ExtractIdle
    /\ ExpandIdle
    /\ AliasIdle
    /\ ConcIdle

Next ==
    \/ EditVault
    \/ SyncIndex
    \/ RebuildIndex
    \/ WatchVault
    \/ Capture
    \/ Retrieve
    \/ RetrieveRaises

Spec == Init /\ [][Next]_vars

-----------------------------------------------------------------------------
(* build on fabricated result lists *)

ContentLens == {50, 130, 400}
HeaderLens == {0, 7}
TokenBudgets == {120, 300}
CharsPerToken2 == {2, 3}     \* chars_per_token 1.0 and 1.5

BuildChunkIds == {"p", "q"} \X {0, 1, 2}

\* Result lists without a repeated chunk id; every list shares one header
\* breadcrumb length.
BuildListsWith(hl) ==
    {rs \in UNION {[1..m -> [chunk : {BuildChunk(id[1], id[2], cl, hl) :
                                        id \in BuildChunkIds,
                                        cl \in ContentLens},
                             score : {0}]] : m \in 0..MaxResults} :
        \A i, j \in 1..Len(rs) :
            (rs[i].chunk.document_path = rs[j].chunk.document_path
             /\ rs[i].chunk.chunk_index = rs[j].chunk.chunk_index) => i = j}

BuildLists == UNION {BuildListsWith(hl) : hl \in HeaderLens}

InitBuild ==
    /\ op = "init"
    /\ RrfIdle
    /\ max_tokens \in TokenBudgets
    /\ chars_per_token \in CharsPerToken2
    /\ include_metadata \in BOOLEAN
    /\ results \in BuildLists
    /\ context = <<>>
    /\ ServiceIdle
    /\ EmbedIdle
    /\ ExtractIdle
    /\ ExpandIdle
    /\ AliasIdle
    /\ ConcIdle

BuildContext ==
    /\ op = "init"
    /\ op' = "built"
    /\ context' = Build(results, MaxChars(max_tokens, chars_per_token),
                        include_metadata)
    /\ UNCHANGED <<max_tokens, chars_per_token, include_metadata, results>>
    /\ UNCHANGED <<rrfVars, svcVars, embedVars, extractVars, expandVars,
                   aliasVars, concVars>>

NextBuild == BuildContext

SpecBuild == InitBuild /\ [][NextBuild]_vars

-----------------------------------------------------------------------------
(* Fusion of fabricated lists: the inputs are any two lists over a small   *)
(* chunk set, repeats and overlaps included.                               *)

RrfChunks == {Chunk("d1", 0, 1), Chunk("d1", 1, 1), Chunk("d2", 0, 1)}

SeqsUpTo(S, n) == UNION {[1..m -> S] : m \in 0..n}

RrfLists(src) ==
    {[i \in 1..Len(s) |-> SearchResult(s[i], <<0, 1>>, src)] :
        s \in SeqsUpTo(RrfChunks, MaxLen)}

InitRRF ==
    /\ op = "init"
    /\ \E w \in Weights : vector_weight = w[1] /\ bm25_weight = w[2]
    /\ k \in 1..MaxK
    /\ vector_results \in RrfLists("vector")
    /\ bm25_results \in RrfLists("bm25")
    /\ merged = <<>>
    /\ BuildIdle
    /\ ServiceIdle
    /\ EmbedIdle
    /\ ExtractIdle
    /\ ExpandIdle
    /\ AliasIdle
    /\ ConcIdle

Fuse ==
    /\ op = "init"
    /\ op' = "fused"
    /\ merged' = ReciprocalRankFusion(vector_results, bm25_results, k,
                                      vector_weight, bm25_weight)
    /\ UNCHANGED <<vector_weight, bm25_weight, k, vector_results, bm25_results>>
    /\ UNCHANGED <<buildVars, svcVars, embedVars, extractVars, expandVars,
                   aliasVars, concVars>>

NextRRF == Fuse

SpecRRF == InitRRF /\ [][NextRRF]_vars

-----------------------------------------------------------------------------
(* embed on fabricated inputs: any text list, cache and provider behaviour *)

\* A cache that earlier calls filled: the embeddings of some texts.
Caches ==
    {[key \in {CacheKey(t) : t \in S} |-> Emb(key[3])] : S \in SUBSET Texts}

\* States BrainService leaves the stores and the retriever in: nothing
\* indexed, or one note indexed with the lexical index not built, built and
\* fresh, or built and marked dirty.
ServiceStates ==
    LET none == [manifest |-> NoEntries, index |-> NoEntries]
        st == IndexFile(none, "d1", 1)
        built == BuildBm25Index(ListIndex(st.index, 1), TRUE)
    IN  {[files |-> NoEntries, manifest |-> NoEntries, index |-> NoEntries,
          bm25 |-> NoIndex, chunks |-> <<>>, dirty |-> TRUE],
         [files |-> With(NoEntries, "d1", 1), manifest |-> st.manifest,
          index |-> st.index, bm25 |-> NoIndex, chunks |-> <<>>,
          dirty |-> TRUE]}
        \cup {[files |-> With(NoEntries, "d1", 1), manifest |-> st.manifest,
               index |-> st.index, bm25 |-> built.bm25,
               chunks |-> built.chunks, dirty |-> d] : d \in BOOLEAN}

InitEmbed ==
    /\ op = "init"
    /\ texts \in SeqsUpTo(Texts, MaxLen)
    /\ cache \in Caches
    /\ batch_size \in 1..MaxBatch
    /\ failures \in [1..MaxLen -> 0..StopAfterAttempt]
    /\ embeddings = NoEmbeddings
    /\ api_calls = <<>>
    /\ vector_weight = 7
    /\ bm25_weight = 3
    /\ k = 0
    /\ vector_results = <<>>
    /\ bm25_results = <<>>
    /\ merged = <<>>
    /\ BuildIdle
    /\ \E s \in ServiceStates :
          /\ files = s.files
          /\ manifest = s.manifest
          /\ vector_index = s.index
          /\ bm25 = s.bm25
          /\ bm25_chunks = s.chunks
          /\ bm25_dirty = s.dirty
    /\ call = NoCall
    /\ counts = NoCounts
    /\ in_sync = FALSE
    /\ resync = FALSE
    /\ removed = {}
    /\ ExtractIdle
    /\ ExpandIdle
    /\ AliasIdle
    /\ ConcIdle

EmbedTexts ==
    /\ op = "init"
    /\ LET r == Embed(texts, cache, batch_size, failures)
       IN  /\ op' = IF r.raised THEN "embed_raised" ELSE "embed"
           /\ embeddings' = [raised |-> r.raised, values |-> r.results]
           /\ cache' = r.cache
           /\ api_calls' = r.calls
    /\ UNCHANGED <<texts, batch_size, failures>>
    /\ UNCHANGED <<rrfVars, buildVars, svcVars, extractVars, expandVars,
                   aliasVars, concVars>>

\* HybridRetriever.retrieve(query, k, where=None, chunks_for_bm25) with the
\* query in texts: embed_single(query) is embed([query])[0], and it is the
\* first statement of retrieve.
RetrieveQuery ==
    /\ op = "init"
    /\ Len(texts) = 1
    /\ \E kk \in 1..MaxK, corpus \in CorpusArgs, order \in SearchOrders :
          LET e == Embed(texts, cache, batch_size, failures)
          IN  /\ embeddings' = [raised |-> e.raised, values |-> e.results]
              /\ cache' = e.cache
              /\ api_calls' = e.calls
              /\ k' = kk
              /\ call' = [query |-> texts[1], corpus |-> corpus,
                          dirty_before |-> bm25_dirty]
              /\ IF e.raised
                 THEN /\ op' = "retrieve_raised"
                      /\ vector_results' = <<>>
                      /\ bm25_results' = <<>>
                      /\ merged' = <<>>
                      /\ UNCHANGED bm25Vars
                 ELSE \E out \in RetrieveOutcomes(
                                     texts[1], kk, corpus, order, vector_index,
                                     bm25, bm25_chunks, bm25_dirty,
                                     vector_weight, bm25_weight) :
                          /\ op' = "retrieve"
                          /\ vector_results' = out.vector_results
                          /\ bm25_results' = out.bm25_results
                          /\ merged' = out.merged
                          /\ bm25' = out.bm25
                          /\ bm25_chunks' = out.chunks
                          /\ bm25_dirty' = out.dirty
    /\ UNCHANGED <<texts, batch_size, failures>>
    /\ UNCHANGED <<vector_weight, bm25_weight, storeVars, counts, in_sync,
                   resync, removed>>
    /\ UNCHANGED <<buildVars, extractVars, expandVars,
                   aliasVars, concVars>>

NextEmbed ==
    \/ EmbedTexts
    \/ RetrieveQuery

SpecEmbed == InitEmbed /\ [][NextEmbed]_vars

-----------------------------------------------------------------------------
(* extract_all on any text of the completion backend                      *)

\* A response is a text that is not JSON, JSON that does not match the
\* ExtractionResult schema, or an ExtractionResult whose tasks and reminders
\* carry any date strings.
Responses ==
    {[is_json |-> FALSE, matches_schema |-> FALSE, tasks |-> <<>>,
      reminders |-> <<>>],
     [is_json |-> TRUE, matches_schema |-> FALSE, tasks |-> <<>>,
      reminders |-> <<>>]}
    \cup {[is_json |-> TRUE, matches_schema |-> TRUE, tasks |-> t,
           reminders |-> r] :
             t \in SeqsUpTo(DateStrings, MaxItems),
             r \in SeqsUpTo(DateStrings, MaxItems)}

InitExtract ==
    /\ op = "init"
    /\ response \in Responses
    /\ extracted = NotExtracted
    /\ RrfIdle
    /\ BuildIdle
    /\ ServiceIdle
    /\ EmbedIdle
    /\ ExpandIdle
    /\ AliasIdle
    /\ ConcIdle

ExtractAllFromNote ==
    /\ op = "init"
    /\ op' = "extract_all"
    /\ extracted' = ExtractAll(response)
    /\ UNCHANGED response
    /\ UNCHANGED <<rrfVars, buildVars, svcVars, embedVars, expandVars,
                   aliasVars, concVars>>

NextExtract == ExtractAllFromNote

SpecExtract == InitExtract /\ [][NextExtract]_vars

-----------------------------------------------------------------------------
(* build_with_expansion on fabricated results and linked chunks           *)

ExpandChunks ==
    {LinkedChunk("p", 0, {"q"}), LinkedChunk("q", 0, {"p"}),
     LinkedChunk("q", 1, {})}

\* Result lists as retrieve returns them: no chunk twice.
ExpandResults ==
    {rs \in SeqsUpTo({ScoredResult(c, s, "hybrid") :
                         c \in ExpandChunks, s \in {1, 2}}, MaxPool) :
        \A i, j \in 1..Len(rs) : rs[i].chunk = rs[j].chunk => i = j}

\* The linked chunks of document q: up to MaxPool + 1 results, no chunk
\* twice, with scores and source tags of their own.
LinkedOfQ ==
    {rs \in SeqsUpTo({ScoredResult(LinkedChunk("q", 0, {"p"}), 1, "hybrid"),
                      ScoredResult(LinkedChunk("q", 0, {"p"}), 2, "vector"),
                      ScoredResult(LinkedChunk("q", 1, {}), 1, "vector"),
                      ScoredResult(LinkedChunk("q", 2, {}), 2, "vector")},
                     MaxPool + 1) :
        \A i, j \in 1..Len(rs) : rs[i].chunk = rs[j].chunk => i = j}

LinkedOfP == {<<>>, <<ScoredResult(LinkedChunk("p", 1, {}), 1, "vector")>>}

LinkChunkMaps ==
    {With(NoEntries, "q", lq) : lq \in LinkedOfQ}
    \cup {With(With(NoEntries, "q", lq), "p", lp) :
             lq \in LinkedOfQ, lp \in LinkedOfP}

InitExpand ==
    /\ op = "init"
    /\ RrfIdle
    /\ max_tokens \in TokenBudgets
    /\ chars_per_token = 2
    /\ include_metadata = TRUE
    /\ results \in ExpandResults
    /\ context = <<>>
    /\ link_chunks \in LinkChunkMaps
    /\ pool = <<>>
    /\ ServiceIdle
    /\ EmbedIdle
    /\ ExtractIdle
    /\ AliasIdle
    /\ ConcIdle

BuildWithExpansion ==
    /\ op = "init"
    /\ op' = "expanded"
    /\ \E order \in OrdersOf(AllLinks(results)) :
          /\ pool' = ExpandedPool(results, link_chunks, order)
          /\ context' = Build(pool', MaxChars(max_tokens, chars_per_token),
                              include_metadata)
    /\ UNCHANGED <<max_tokens, chars_per_token, include_metadata, results,
                   link_chunks>>
    /\ UNCHANGED <<rrfVars, svcVars, embedVars, extractVars, aliasVars,
                   concVars>>

NextExpand == BuildWithExpansion

SpecExpand == InitExpand /\ [][NextExpand]_vars

-----------------------------------------------------------------------------
(* A caller that keeps the list it passes to retrieve as chunks_for_bm25  *)

AliasChunks == {Chunk("d1", 0, 1), Chunk("d1", 1, 1), Chunk("d2", 0, 1)}

\* The contents the caller's list object can have.
CallerLists ==
    {l \in SeqsUpTo(AliasChunks, MaxLen) :
        \A i, j \in 1..Len(l) : l[i] = l[j] => i = j}

\* HybridRetriever.__init__, and a caller holding a list of chunks.
InitAlias ==
    /\ op = "init"
    /\ vector_weight = 7
    /\ bm25_weight = 3
    /\ k = 0
    /\ vector_results = <<>>
    /\ bm25_results = <<>>
    /\ merged = <<>>
    /\ BuildIdle
    /\ ServiceIdle
    /\ EmbedIdle
    /\ ExtractIdle
    /\ ExpandIdle
    /\ ConcIdle
    /\ caller_chunks \in CallerLists
    /\ shared = FALSE

\* What a call passes as chunks_for_bm25 when it is not the caller's list:
\* None, or a list object of its own.
OtherCorpora == {NoCorpus, Corpus(<<>>), Corpus(<<Chunk("d2", 0, 1)>>)}

\* retrieve(query, k, chunks_for_bm25=corpus).  own: the argument is the
\* caller's list object itself.  _build_bm25_index keeps the argument object
\* as _bm25_chunks (line 51).
RetrieveList ==
    \E query \in Queries, kk \in 1..MaxK, own \in BOOLEAN :
      \E corpus \in (IF own THEN {Corpus(caller_chunks)} ELSE OtherCorpora) :
        \E out \in RetrieveOutcomes(query, kk, corpus, "asc", vector_index,
                                    bm25, bm25_chunks, bm25_dirty,
                                    vector_weight, bm25_weight) :
            /\ op' = "retrieve"
            /\ k' = kk
            /\ vector_results' = out.vector_results
            /\ bm25_results' = out.bm25_results
            /\ merged' = out.merged
            /\ bm25' = out.bm25
            /\ bm25_chunks' = out.chunks
            /\ bm25_dirty' = out.dirty
            /\ call' = [query |-> query, corpus |-> corpus,
                        dirty_before |-> bm25_dirty]
            /\ shared' = IF NeedsRebuild(corpus, bm25_dirty, bm25_chunks)
                         THEN own ELSE shared
            /\ UNCHANGED <<vector_weight, bm25_weight, storeVars, counts,
                           in_sync, resync, removed, caller_chunks>>
            /\ UNCHANGED <<buildVars, embedVars, extractVars, expandVars,
                           concVars>>

\* The caller changes its list in place (append, remove, assign an item):
\* _bm25_chunks changes with it when it is the same object; the BM25Okapi
\* object was built from the tokens of the earlier content.
ChangeList ==
    /\ op' = "change_list"
    /\ \E l \in CallerLists \ {caller_chunks} :
          /\ caller_chunks' = l
          /\ bm25_chunks' = IF shared THEN l ELSE bm25_chunks
    /\ k' = 0
    /\ vector_results' = <<>>
    /\ bm25_results' = <<>>
    /\ merged' = <<>>
    /\ call' = NoCall
    /\ UNCHANGED <<vector_weight, bm25_weight, storeVars, bm25, bm25_dirty,
                   counts, in_sync, resync, removed, shared>>
    /\ UNCHANGED <<buildVars, embedVars, extractVars, expandVars, concVars>>

\* HybridRetriever.mark_dirty()
MarkDirty ==
    /\ op' = "mark_dirty"
    /\ bm25_dirty' = TRUE
    /\ k' = 0
    /\ vector_results' = <<>>
    /\ bm25_results' = <<>>
    /\ merged' = <<>>
    /\ call' = NoCall
    /\ UNCHANGED <<vector_weight, bm25_weight, storeVars, bm25, bm25_chunks,
                   counts, in_sync, resync, removed>>
    /\ UNCHANGED <<buildVars, embedVars, extractVars, expandVars, aliasVars,
                   concVars>>

NextAlias ==
    \/ RetrieveList
    \/ ChangeList
    \/ MarkDirty

SpecAlias == InitAlias /\ [][NextAlias]_vars

-----------------------------------------------------------------------------
(* Threads that call retrieve on one HybridRetriever at the same time.     *)
(* The class holds no lock; a thread can be preempted between any two      *)
(* statements that read or assign _bm25, _bm25_chunks and _bm25_dirty.     *)

Threads == {"t1", "t2"}

\* chunks_for_bm25 of a call: None, or one of two lists.
ConcCorpora ==
    {NoCorpus, Corpus(<<Chunk("d1", 0, 1)>>),
     Corpus(<<Chunk("d2", 0, 1), Chunk("d2", 1, 1)>>)}

\* A thread outside retrieve.  scores_of: the documents of the index its
\* scores came from (line 79); zipped: the chunk list it zipped them with
\* (line 82).
IdleThread ==
    [pc |-> "idle", corpus |-> NoCorpus, scores_of |-> <<>>, zipped |-> <<>>]

InitConc ==
    /\ op = "init"
    /\ vector_weight = 7
    /\ bm25_weight = 3
    /\ k = 0
    /\ vector_results = <<>>
    /\ bm25_results = <<>>
    /\ merged = <<>>
    /\ BuildIdle
    /\ ServiceIdle
    /\ EmbedIdle
    /\ ExtractIdle
    /\ ExpandIdle
    /\ AliasIdle
    /\ threads = [t \in Threads |-> IdleThread]

\* A step of thread t that leaves everything but the retriever's lexical
\* fields and the thread itself alone.
ThreadStep(t, pc, next) ==
    /\ threads[t].pc = pc
    /\ op' = next
    /\ UNCHANGED <<rrfVars, buildVars, storeVars, histVars, embedVars,
                   extractVars, expandVars, aliasVars>>

\* retrieve is called (lines 59-69): the query is embedded and the vector
\* store searched, neither touching the lexical fields.
EnterRetrieve ==
    \E t \in Threads, corpus \in ConcCorpora :
        /\ ThreadStep(t, "idle", "l73")
        /\ threads' = [threads EXCEPT ![t] =
                          [IdleThread EXCEPT !.pc = "l73", !.corpus = corpus]]
        /\ UNCHANGED bm25Vars

\* Lines 73-74: the two conditions.
TestRebuild ==
    \E t \in Threads :
        LET corpus == threads[t].corpus
            next == IF ~(Truthy(corpus) \/ bm25_chunks # <<>>) THEN "return"
                    ELSE IF NeedsRebuild(corpus, bm25_dirty, bm25_chunks)
                         THEN "l50" ELSE "l77"
        IN  /\ ThreadStep(t, "l73", next)
            /\ threads' = [threads EXCEPT ![t].pc = next]
            /\ UNCHANGED bm25Vars

\* Lines 49-50: self._bm25 = BM25Okapi(tokenized)
AssignBm25 ==
    \E t \in Threads :
        /\ ThreadStep(t, "l50", "l51")
        /\ bm25' = [built |-> TRUE, docs |-> threads[t].corpus.chunks]
        /\ threads' = [threads EXCEPT ![t].pc = "l51"]
        /\ UNCHANGED <<bm25_chunks, bm25_dirty>>

\* Line 51: self._bm25_chunks = chunks
AssignBm25Chunks ==
    \E t \in Threads :
        /\ ThreadStep(t, "l51", "l52")
        /\ bm25_chunks' = threads[t].corpus.chunks
        /\ threads' = [threads EXCEPT ![t].pc = "l52"]
        /\ UNCHANGED <<bm25, bm25_dirty>>

\* Line 52: self._bm25_dirty = False
AssignFresh ==
    \E t \in Threads :
        /\ ThreadStep(t, "l52", "l77")
        /\ bm25_dirty' = FALSE
        /\ threads' = [threads EXCEPT ![t].pc = "l77"]
        /\ UNCHANGED <<bm25, bm25_chunks>>

\* Lines 77-79: if self._bm25 and self._bm25_chunks: scores = get_scores(...)
GetScores ==
    \E t \in Threads :
        LET scoring == bm25.built /\ bm25_chunks # <<>>
            next == IF scoring THEN "l82" ELSE "return"
        IN  /\ ThreadStep(t, "l77", next)
            /\ threads' = [threads EXCEPT
                              ![t].pc = next,
                              ![t].scores_of = IF scoring THEN bm25.docs
                                               ELSE <<>>]
            /\ UNCHANGED bm25Vars

\* Line 82: scored_chunks = list(zip(self._bm25_chunks, scores)); the rest of
\* the call works on locals.
ZipScores ==
    \E t \in Threads :
        /\ ThreadStep(t, "l82", "return")
        /\ threads' = [threads EXCEPT ![t].pc = "return",
                                      ![t].zipped = bm25_chunks]
        /\ UNCHANGED bm25Vars

\* Line 105: return merged
ReturnMerged ==
    \E t \in Threads :
        /\ ThreadStep(t, "return", "idle")
        /\ threads' = [threads EXCEPT ![t] = IdleThread]
        /\ UNCHANGED bm25Vars

NextConc ==
    \/ EnterRetrieve
    \/ TestRebuild
    \/ AssignBm25
    \/ AssignBm25Chunks
    \/ AssignFresh
    \/ GetScores
    \/ ZipScores
    \/ ReturnMerged
    \/ MarkDirty

SpecConc == InitConc /\ [][NextConc]_vars

-----------------------------------------------------------------------------
(* The service when indexing a file fails                                  *)

\* Where _index_file raises: in parser.parse (line 330), before anything is
\* stored, or in embedding_service.embed (line 353), after upsert_document
\* (line 333) stored the new checksum and before vector_store.upsert.
FailStages == {"parse", "embed"}

IndexFileFails(st, d, content, stage) ==
    IF stage = "parse" THEN st
    ELSE [manifest |-> With(st.manifest, d, Checksum(content)),
          index |-> st.index]

\* What a step that raised leaves of the last retrieve and of the counts.
Raised(name) ==
    /\ op' = name
    /\ counts' = NoCounts
    /\ in_sync' = FALSE
    /\ resync' = FALSE
    /\ UNCHANGED <<files, bm25Vars, removed>>
    /\ NoRetrieval

\* sync_index when _index_file raises for document f: the documents of the
\* same loop handled before f (any of them, the loops iterate over sets) are
\* indexed, the later loops and mark_dirty (lines 294-295) are not reached.
SyncIndexRaises ==
    LET existing_ids == DOMAIN manifest
        current_ids == DOMAIN files
        added_ids == current_ids \ existing_ids
        updated_ids == UpdatedIds(manifest, current_ids \cap existing_ids)
    IN  \E f \in added_ids \cup updated_ids, stage \in FailStages :
          \E done \in SUBSET ((IF f \in added_ids THEN added_ids
                               ELSE updated_ids) \ {f}) :
            LET before == IF f \in added_ids
                          THEN ProcessAdditions(Stores, done)
                          ELSE ProcessUpdates(
                                   ProcessAdditions(Stores, added_ids), done)
                cleared == IF f \in added_ids THEN before
                           ELSE [manifest |-> before.manifest,
                                 index |-> DeleteByDocument(before.index, f)]
                st == IndexFileFails(cleared, f, files[f], stage)
            IN  /\ manifest' = st.manifest
                /\ vector_index' = st.index
                /\ Raised("sync_raised")

\* rebuild_index when _index_file raises for document f: the index was
\* cleared (line 230), mark_dirty (line 240) is not reached.
RebuildIndexRaises ==
    \E f \in DOMAIN files, stage \in FailStages :
      \E done \in SUBSET (DOMAIN files \ {f}) :
        LET before == ProcessAdditions(
                          [manifest |-> manifest, index |-> NoEntries], done)
            st == IndexFileFails(before, f, files[f], stage)
        IN  /\ manifest' = st.manifest
            /\ vector_index' = st.index
            /\ Raised("rebuild_raised")

\* on_change when a call raises: delete_document (line 308) after
\* delete_by_document, or _index_file (line 312); mark_dirty (line 315) is
\* not reached.
WatchVaultRaises ==
    \E d \in Docs, stage \in FailStages :
        LET st == IF d \notin DOMAIN files
                  THEN [manifest |-> manifest,
                        index |-> DeleteByDocument(vector_index, d)]
                  ELSE IndexFileFails(Stores, d, files[d], stage)
        IN  /\ manifest' = st.manifest
            /\ vector_index' = st.index
            /\ Raised("watch_raised")

\* retrieve("q", k=1) without a corpus or with the chunks now in the index.
RetrieveCurrent ==
    \E corpus \in {NoCorpus, Corpus(CurrentCorpus)} :
        \E out \in RetrieveOutcomes("q", 1, corpus, "asc", vector_index,
                                    bm25, bm25_chunks, bm25_dirty,
                                    vector_weight, bm25_weight) :
            /\ op' = "retrieve"
            /\ k' = 1
            /\ vector_results' = out.vector_results
            /\ bm25_results' = out.bm25_results
            /\ merged' = out.merged
            /\ bm25' = out.bm25
            /\ bm25_chunks' = out.chunks
            /\ bm25_dirty' = out.dirty
            /\ call' = [query |-> "q", corpus |-> corpus,
                        dirty_before |-> bm25_dirty]
            /\ counts' = NoCounts
            /\ resync' = FALSE
            /\ UNCHANGED <<vector_weight, bm25_weight, storeVars,
                           in_sync, removed>>
            /\ UNCHANGED <<buildVars, embedVars, extractVars, expandVars,
                           aliasVars, concVars>>

NextFail ==
    \/ EditVault
    \/ SyncIndex
    \/ SyncIndexRaises
    \/ RebuildIndex
    \/ RebuildIndexRaises
    \/ WatchVault
    \/ WatchVaultRaises
    \/ RetrieveCurrent

SpecFail == Init /\ [][NextFail]_vars

-----------------------------------------------------------------------------
(* The service reached through its entry points                            *)

QueryCorpusCurrent == Corpus(CurrentCorpus)

\* chunks_for_bm25 as BrainService.query (service.py:80) and the API's
\* query_stream (api/app.py:156) pass it: not at all.
QueryCorpus == NoCorpus

\* BrainService.query(question, k) and query_stream: retrieve(question, k=k),
\* then the context and the answer are made from the returned list; nothing
\* of that is kept.
Query ==
    \E question \in Queries, kk \in 1..MaxK :
        \E out \in RetrieveOutcomes(question, kk, QueryCorpus, "asc",
                                    vector_index, bm25, bm25_chunks,
                                    bm25_dirty, vector_weight, bm25_weight) :
            /\ op' = "query"
            /\ k' = kk
            /\ vector_results' = out.vector_results
            /\ bm25_results' = out.bm25_results
            /\ merged' = out.merged
            /\ bm25' = out.bm25
            /\ bm25_chunks' = out.chunks
            /\ bm25_dirty' = out.dirty
            /\ call' = [query |-> question, corpus |-> QueryCorpus,
                        dirty_before |-> bm25_dirty]
            /\ counts' = NoCounts
            /\ resync' = FALSE
            /\ UNCHANGED <<vector_weight, bm25_weight, storeVars,
                           in_sync, removed>>
            /\ UNCHANGED <<buildVars, embedVars, extractVars, expandVars,
                           aliasVars, concVars>>

NextService ==
    \/ EditVault
    \/ SyncIndex
    \/ RebuildIndex
    \/ WatchVault
    \/ Capture
    \/ Query
    \/ RetrieveRaises

SpecService == Init /\ [][NextService]_vars

-----------------------------------------------------------------------------
(* Properties of the fusion *)

Fused == op = "fused"

IdsOf(rl) == {ChunkId(rl[i].chunk) : i \in 1..Len(rl)}

PositionsOf(rl, id) ==
    {i \in 1..Len(rl) : ChunkId(rl[i].chunk) = id}

\* C1: for k >= 1 and any two input lists (overlapping or repeating chunk
\* ids), the fusion returns at most k results and no chunk id twice.
C1_AtMostKAndUnique ==
    Fused =>
        /\ Len(merged) <= k
        /\ \A i, j \in 1..Len(merged) :
               ChunkId(merged[i].chunk) = ChunkId(merged[j].chunk) => i = j

\* Both lists name one chunk id, one of them twice, and more ids are fused
\* than k allows to return.
C1_Witness ==
    /\ Fused
    /\ Len(merged) = k
    /\ Cardinality(IdsOf(vector_results) \cup IdsOf(bm25_results)) > k
    /\ IdsOf(vector_results) \cap IdsOf(bm25_results) # {}
    /\ \E id \in IdsOf(vector_results) :
           Cardinality(PositionsOf(vector_results, id)) > 1

\* The term one list contributes to a chunk that holds at most one rank in
\* it: weight / (60 + rank + 1) at zero-based rank = position - 1, and 0 when
\* the chunk is absent.  The quotient is exact: every 60 + rank + 1 divides
\* ScoreDen.
ListTerm(w, positions) ==
    IF positions = {} THEN 0
    ELSE LET p == CHOOSE q \in positions : TRUE
         IN  w * (ScoreDen \div (60 + (p - 1) + 1))

\* C2: with rrf_k = 60 and zero-based ranks, a chunk at rank r1 of the vector
\* list and rank r2 of the lexical list is scored exactly
\* vector_weight/(60+r1+1) + bm25_weight/(60+r2+1); a chunk present in only
\* one list gets only that list's term.
C2_FusedScoreExact ==
    Fused =>
        /\ \A r \in 0..(MaxLen - 1) : ScoreDen % (60 + r + 1) = 0
        /\ \A i \in 1..Len(merged) :
             LET id == ChunkId(merged[i].chunk)
                 vp == PositionsOf(vector_results, id)
                 bp == PositionsOf(bm25_results, id)
             IN  (Cardinality(vp) <= 1 /\ Cardinality(bp) <= 1) =>
                     merged[i].score = ListTerm(vector_weight, vp)
                                       + ListTerm(bm25_weight, bp)

\* One returned chunk sits at different ranks of both lists, another one is
\* in the lexical list only.
C2_Witness ==
    /\ Fused
    /\ \E i, j \in 1..Len(merged) :
          LET a == ChunkId(merged[i].chunk)
              b == ChunkId(merged[j].chunk)
          IN  /\ PositionsOf(vector_results, a) = {1}
              /\ PositionsOf(bm25_results, a) = {2}
              /\ PositionsOf(vector_results, b) = {}
              /\ PositionsOf(bm25_results, b) = {1}

\* Insertion order of the dict: vector-list order first, then the chunks seen
\* only in the lexical list, in lexical order.
FirstPosition(id) ==
    IF PositionsOf(vector_results, id) # {}
    THEN CHOOSE p \in PositionsOf(vector_results, id) :
             \A q \in PositionsOf(vector_results, id) : p <= q
    ELSE Len(vector_results)
         + (CHOOSE p \in PositionsOf(bm25_results, id) :
                \A q \in PositionsOf(bm25_results, id) : p <= q)

\* C3: the returned list is in non-increasing order of fused score and chunks
\* of equal score keep insertion order, which fixes the output for given
\* inputs.
C3_SortedStable ==
    Fused =>
        \A i, j \in 1..Len(merged) :
            i < j =>
                /\ merged[i].score >= merged[j].score
                /\ merged[i].score = merged[j].score =>
                       FirstPosition(ChunkId(merged[i].chunk))
                           < FirstPosition(ChunkId(merged[j].chunk))

\* A tie between a vector-list chunk and a lexical-only chunk, both returned.
C3_Witness ==
    /\ Fused
    /\ Len(merged) >= 2
    /\ merged[1].score = merged[2].score
    /\ PositionsOf(vector_results, ChunkId(merged[2].chunk)) = {}
    /\ PositionsOf(vector_results, ChunkId(merged[1].chunk)) # {}

-----------------------------------------------------------------------------
(* Properties of build *)

Built == op = "built"

\* The character budget, int(max_tokens * chars_per_token).
Budget == (max_tokens * chars_per_token) \div 2

RECURSIVE JoinChars(_, _)
JoinChars(parts, n) ==
    IF n > Len(parts) THEN 0
    ELSE 2 * (Len(parts[n].texts) - 1) + JoinChars(parts, n + 1)

RECURSIVE HeaderChars(_, _)
HeaderChars(parts, n) ==
    IF n > Len(parts) THEN 0
    ELSE (16 + PathLen(parts[n].document_path)) + HeaderChars(parts, n + 1)

\* The emitted document headers and the join characters between chunks
\* ("\n\n") and between documents ("\n").
SeparatorOverhead(parts) ==
    IF parts = <<>> THEN 0
    ELSE HeaderChars(parts, 1) + JoinChars(parts, 1) + (Len(parts) - 1)

\* C6: for every result list the returned text is never longer than the
\* character budget int(max_tokens * chars_per_token) plus the separator
\* overhead (document headers and join characters).
C6_WithinBudgetPlusOverhead ==
    Built => ContextLen(context) <= Budget + SeparatorOverhead(context)

\* The case of the packing example: budget 120 (max_tokens 120,
\* chars_per_token 1), three results of one document, 50 characters each.
C7_Case ==
    /\ max_tokens = 120
    /\ chars_per_token = 2
    /\ Len(results) = 3
    /\ \A i \in 1..3 :
          /\ results[i].chunk.document_path = results[1].chunk.document_path
          /\ results[i].chunk.content_len = 50

\* The result with the n-th smallest chunk_index (n = 1, 2, 3).
NthChunk(n) ==
    LET i == CHOOSE j \in 1..3 :
                 Cardinality({l \in 1..3 : results[l].chunk.chunk_index
                                             < results[j].chunk.chunk_index}) = n - 1
    IN  results[i].chunk

EmittedTexts == {context[i].texts[j] : <<i, j>> \in
                    {<<i, j>> \in (1..Len(context)) \X (1..MaxResults + 1) :
                        j <= Len(context[i].texts)}}

InFull(c) == \E t \in EmittedTexts : t.chunk = c /\ t.full

Truncated(c) == \E t \in EmittedTexts : t.chunk = c /\ ~t.full

Absent(c) == \A t \in EmittedTexts : t.chunk # c

-----------------------------------------------------------------------------
(* Properties of the service and of retrieve *)

Retrieved == op = "retrieve"

EmptyCorpusGiven == call.corpus.given /\ call.corpus.chunks = <<>>

DocsOf(rl) == {rl[i].chunk.doc : i \in 1..Len(rl)}

\* C4: sync_index is idempotent: called again after a sync_index returned,
\* the files unchanged since, it returns {added: 0, updated: 0, deleted: 0},
\* changes neither the vector index nor the manifest and leaves the lexical
\* dirty flag as it is.
C4_SyncIdempotent ==
    [][(in_sync /\ op' = "sync") =>
          /\ counts' = [added |-> 0, updated |-> 0, deleted |-> 0]
          /\ UNCHANGED <<vector_index, manifest, bm25_dirty>>]_vars

\* A second sync over both documents that found the flag fresh and the
\* manifest complete.
C4_Witness ==
    /\ op = "sync"
    /\ resync
    /\ DOMAIN manifest = Docs
    /\ DOMAIN vector_index # {}
    /\ ~bm25_dirty

\* C5: after sync_index deleted a document, a retrieve that is handed the
\* post-sync corpus (the empty list when no document is left) returns no
\* chunk of the deleted document, neither from the vector list nor from the
\* lexical list.
C5_NoGhostHits ==
    (Retrieved /\ call.corpus = Corpus(CurrentCorpus)) =>
        /\ DocsOf(merged) \cap removed = {}
        /\ DocsOf(vector_results) \cap removed = {}
        /\ DocsOf(bm25_results) \cap removed = {}

\* C8: retrieve called with an empty query string, and retrieve called with
\* an empty chunk corpus, each return an empty result list, whatever state
\* earlier calls left the retriever in.
C8_EmptyInputsEmptyResult ==
    (Retrieved /\ (call.query = "" \/ EmptyCorpusGiven)) => merged = <<>>

\* C9: every BrainService operation that adds, updates or deletes a document
\* in the vector index (sync_index with a non-zero count, rebuild_index, a
\* watch_vault change event, capture) leaves the lexical dirty flag set.
C9_MutationMarksDirty ==
    (\/ op \in {"rebuild", "watch", "capture"}
     \/ (op = "sync" /\ counts # [added |-> 0, updated |-> 0, deleted |-> 0]))
        => bm25_dirty

\* C10: a retrieve that finds the flag dirty and is handed a non-empty corpus
\* C rebuilds the index from C before it scores: its lexical results are
\* chunks of C, and the flag is fresh when it returns.
C10_RebuildBeforeScoring ==
    (Retrieved /\ call.dirty_before /\ call.corpus.given
       /\ call.corpus.chunks # <<>>) =>
        /\ ~bm25_dirty
        /\ bm25 = [built |-> TRUE, docs |-> call.corpus.chunks]
        /\ bm25_chunks = call.corpus.chunks
        /\ \A i \in 1..Len(bm25_results) :
              \E j \in 1..Len(call.corpus.chunks) :
                  call.corpus.chunks[j] = bm25_results[i].chunk

\* A dirty index rebuilt from a two-document corpus, with lexical hits.
C10_Witness ==
    /\ Retrieved
    /\ call.dirty_before
    /\ call.corpus.given
    /\ Cardinality(DocsOf(bm25_results)) = 2
    /\ ~bm25_dirty

ChunksOfDoc(index, d) == {index[id] : id \in {x \in DOMAIN index : index[x].doc = d}}

ParsedNow(d) == {ParseChunks(d, files[d])[i] : i \in 1..ChunkCount(files[d])}

\* The step re-indexed document d: d was in the manifest and sync_index or a
\* watch event stored a new checksum for it.
Reindexes(d) ==
    /\ op' \in {"sync", "watch"}
    /\ d \in DOMAIN manifest
    /\ d \in DOMAIN manifest'
    /\ manifest'[d] # manifest[d]

\* C11: whenever an already-indexed document is re-indexed (the update branch
\* of sync_index, or a watch_vault add/modify event for an existing file),
\* the vector index afterwards holds for that document exactly the chunks of
\* the new parse and no chunk of the previous version.
C11_ReindexReplacesWholesale ==
    [][\A d \in Docs :
          Reindexes(d) => ChunksOfDoc(vector_index', d) = ParsedNow(d)]_vars

VectorDocs == {vector_index[id].doc : id \in DOMAIN vector_index}

LexicalDocs == {bm25_chunks[i].doc : i \in 1..Len(bm25_chunks)}

\* C12 as claimed: in every reachable state every chunk held by the vector
\* index or by the retained lexical chunk list has a document id that is
\* present in the checksum manifest.
C12_ChunksReferenceManifest ==
    /\ VectorDocs \subseteq DOMAIN manifest
    /\ LexicalDocs \subseteq DOMAIN manifest

\* C12 as amended: every chunk of the vector index has its document in the
\* manifest; a chunk of the retained lexical list may outlive its manifest
\* entry, but only while the lexical index is marked dirty.
C12_VectorChunksReferenceManifest ==
    /\ VectorDocs \subseteq DOMAIN manifest
    /\ ~bm25_dirty => LexicalDocs \subseteq DOMAIN manifest

\* sync_index deleted a document whose chunk the lexical list still holds,
\* next to a document that is still indexed.
C12_Witness ==
    /\ op = "sync"
    /\ counts.deleted = 1
    /\ ~(LexicalDocs \subseteq DOMAIN manifest)
    /\ VectorDocs # {}
    /\ bm25_dirty

\* C13: after a sync_index call that returned, once the next retrieval has
\* run, the lexical index and the vector index cover the same set of
\* documents.
C13_ReconvergeAfterSyncCycle ==
    [][(op = "sync" /\ op' = "retrieve") =>
          {bm25_chunks'[i].doc : i \in 1..Len(bm25_chunks')}
              = {vector_index'[id].doc : id \in DOMAIN vector_index'}]_vars

-----------------------------------------------------------------------------
(* Properties of the embedding service *)

\* C14: for every cache state, batch size and input list (repeated texts and
\* any mix of cached and uncached texts included), an embed that returns
\* gives a list as long as the input whose i-th entry is the embedding of
\* the i-th text; embed([]) returns [] without a provider call.
C14_EmbedSameLengthAndOrder ==
    /\ op = "embed" =>
          /\ Len(embeddings.values) = Len(texts)
          /\ \A i \in 1..Len(texts) : embeddings.values[i] = Emb(texts[i])
    /\ (op \in {"embed", "embed_raised"} /\ texts = <<>>) =>
          /\ op = "embed"
          /\ embeddings.values = <<>>
          /\ api_calls = <<>>

\* Three texts with a repeat, one of them cached, fetched in two batches.
C14_Witness ==
    /\ op = "embed"
    /\ Len(texts) = 3
    /\ batch_size = 1
    /\ texts[1] = texts[3]
    /\ texts[2] # texts[1]
    /\ Len(api_calls) = 2

\* The provider attempts of the last call stay within the stop condition,
\* and a call raised exactly when a batch it reached failed every attempt.
AttemptsBounded ==
    /\ \A n \in 1..Len(api_calls) :
          api_calls[n] = Min(failures[n] + 1, 3)
    /\ op \in {"embed", "retrieve"} =>
          /\ ~embeddings.raised
          /\ \A n \in 1..Len(api_calls) : failures[n] < 3
    /\ op \in {"embed_raised", "retrieve_raised"} =>
          /\ embeddings.raised
          /\ embeddings.values = <<>>
          /\ api_calls # <<>>
          /\ failures[Len(api_calls)] = 3
          /\ api_calls[Len(api_calls)] = 3

\* A retrieve whose query embedding failed returned no list and left the
\* lexical index, its chunk list and the dirty flag as they were.
FailedRetrieveChangesNothing ==
    op' = "retrieve_raised" =>
        /\ merged' = <<>>
        /\ vector_results' = <<>>
        /\ bm25_results' = <<>>
        /\ UNCHANGED <<bm25, bm25_chunks, bm25_dirty>>

\* A retrieve whose uncached query meets a provider that fails every attempt
\* raises.
PersistentFailurePropagates ==
    (/\ op' \in {"retrieve", "retrieve_raised"}
     /\ CacheKey(texts[1]) \notin DOMAIN cache
     /\ failures[1] = 3) => op' = "retrieve_raised"

\* C15: a provider call is attempted at most 3 times per batch; when every
\* attempt fails the failure propagates out of embed and out of retrieve (no
\* result list is returned), and the failed retrieve leaves the lexical
\* index, its chunk list and the dirty flag unchanged.
C15_BoundedRetriesThenHardFailure ==
    /\ []AttemptsBounded
    /\ [][FailedRetrieveChangesNothing /\ PersistentFailurePropagates]_vars

\* A retrieve that raised after three attempts, with a built and fresh
\* lexical index and a non-empty corpus at hand.
C15_Witness ==
    /\ op = "retrieve_raised"
    /\ api_calls = <<3>>
    /\ bm25.built
    /\ ~bm25_dirty
    /\ call.corpus.given
    /\ call.corpus.chunks # <<>>

-----------------------------------------------------------------------------
(* Properties of the extraction *)

\* C16: for every text the completion backend can return (not JSON, JSON
\* that does not match the schema, schema-valid JSON whose date strings are
\* not parseable), extract_all does not raise, and an extraction that is not
\* JSON or does not match the schema is degraded to the empty result.
C16_MalformedDegradesToEmpty ==
    op = "extract_all" =>
        /\ ~extracted.raised
        /\ (~response.is_json \/ ~response.matches_schema) =>
              extracted = EmptyExtraction

-----------------------------------------------------------------------------
(* Properties of build: order, truncation                                  *)

\* The chunk texts of the returned text, in the order they appear in it.
RECURSIVE EmittedSeq(_, _)
EmittedSeq(parts, n) ==
    IF n > Len(parts) THEN <<>>
    ELSE parts[n].texts \o EmittedSeq(parts, n + 1)

FirstIndexOfDoc(path) ==
    CHOOSE i \in 1..Len(results) :
        /\ results[i].chunk.document_path = path
        /\ \A j \in 1..(i - 1) : results[j].chunk.document_path # path

\* Chunk c is processed before chunk e: its document's first result comes
\* earlier in the input, or it is an earlier chunk of the same document.
ProcessedBefore(c, e) ==
    \/ FirstIndexOfDoc(c.document_path) < FirstIndexOfDoc(e.document_path)
    \/ /\ c.document_path = e.document_path
       /\ c.chunk_index < e.chunk_index

InputChunks == {results[i].chunk : i \in 1..Len(results)}

\* C17: once a chunk does not fit (it is truncated or skipped), no chunk
\* later in processing order is emitted; so the emitted chunks are the first
\* chunks in processing order, at most one of them is truncated and it is
\* the last chunk of the output.
C17_StopsAtFirstMisfit ==
    Built =>
        LET out == EmittedSeq(context, 1)
        IN  /\ \A i \in 1..Len(out) : i < Len(out) => out[i].full
            /\ \A i \in 1..Len(out) : \A c \in InputChunks :
                  ProcessedBefore(c, out[i].chunk) =>
                      \E j \in 1..(i - 1) : out[j].chunk = c /\ out[j].full

\* current_chars when the chunk at position j of section i was examined: the
\* headers of the sections before and len(text) + 2 of every chunk emitted
\* in full before it.
RECURSIVE FullCharsBefore(_, _)
FullCharsBefore(chunk_texts, j) ==
    IF j <= 1 THEN 0
    ELSE (IF chunk_texts[j - 1].full THEN chunk_texts[j - 1].chars + 2 ELSE 0)
         + FullCharsBefore(chunk_texts, j - 1)

RECURSIVE CharsUsed(_, _)
CharsUsed(i, j) ==
    IF i <= 1 THEN FullCharsBefore(context[1].texts, j)
    ELSE CharsUsed(i - 1, Len(context[i - 1].texts) + 1)
         + context[i - 1].section_chars
         + FullCharsBefore(context[i].texts, j)

Remaining(i, j) == Budget - CharsUsed(i, j) - context[i].section_chars - 10

ResultsIn(path) ==
    Cardinality({l \in 1..Len(results) : results[l].chunk.document_path = path})

\* C18: a chunk that does not fit is cut to remaining = max_chars - chars
\* used so far - header length - 10 characters plus "..." only when
\* remaining > 100, and is left out when remaining <= 100; every truncated
\* fragment carries more than 100 characters of the chunk's text.
C18_TruncateOnlyAbove100 ==
    Built =>
        \A i \in 1..Len(context) :
            LET m == Len(context[i].texts)
                last == context[i].texts[m]
            IN  /\ \A j \in 1..m :
                      ~context[i].texts[j].full =>
                          /\ context[i].texts[j].kept = Remaining(i, j)
                          /\ context[i].texts[j].kept > 100
                          /\ context[i].texts[j].chars
                                 = context[i].texts[j].kept + 3
                          /\ context[i].texts[j].kept
                                 < TextLen(context[i].texts[j].chunk,
                                           include_metadata)
                /\ (last.full /\ m < ResultsIn(context[i].document_path)) =>
                      Remaining(i, m + 1) <= 100

\* A truncated chunk in one section and a skipped chunk in the next.
C18_Witness ==
    /\ Built
    /\ Len(context) = 2
    /\ ~context[1].texts[1].full
    /\ context[2].texts[Len(context[2].texts)].full
    /\ Len(context[2].texts) < ResultsIn(context[2].document_path)

\* C19: documents appear in the order in which each document's first result
\* occurs in the input, each emitted document under exactly one header, and
\* within a document the emitted chunks are in ascending chunk_index order,
\* whatever their input positions.
C19_DocumentAndChunkOrder ==
    Built =>
        /\ \A i, j \in 1..Len(context) :
              i < j => FirstIndexOfDoc(context[i].document_path)
                           < FirstIndexOfDoc(context[j].document_path)
        /\ \A i \in 1..Len(context) :
              /\ context[i].texts # <<>>
              /\ context[i].section_chars
                     = 16 + PathLen(context[i].document_path)
              /\ \A j \in 1..Len(context[i].texts) :
                    /\ context[i].texts[j].chunk.document_path
                           = context[i].document_path
                    /\ context[i].texts[j].chunk \in InputChunks
                    /\ \A l \in 1..(j - 1) :
                          context[i].texts[l].chunk.chunk_index
                              < context[i].texts[j].chunk.chunk_index

\* Two documents emitted, the second with two chunks that came in descending
\* chunk_index order in the input.
C19_Witness ==
    /\ Built
    /\ Len(context) = 2
    /\ Len(context[2].texts) = 2
    /\ \E a, b \in 1..Len(results) :
          /\ a < b
          /\ results[a].chunk.document_path = context[2].document_path
          /\ results[b].chunk.document_path = context[2].document_path
          /\ results[a].chunk.chunk_index > results[b].chunk.chunk_index

-----------------------------------------------------------------------------
(* Properties of the expansion *)

ChunksNamed(rl, path) ==
    Cardinality({i \in 1..Len(rl) : rl[i].chunk.document_path = path})

\* C20: the pool build_with_expansion hands to build contains every input
\* result, adds at most 2 results per link target, never holds a chunk a
\* second time (also when the linked candidate carries another score or
\* source tag than the copy already present), and is sorted by score in
\* non-increasing order.
C20_PoolUnionDedupedSorted ==
    op = "expanded" =>
        /\ \A i \in 1..Len(results) : \E j \in 1..Len(pool) : pool[j] = results[i]
        /\ \A t \in {"p", "q"} :
              ChunksNamed(pool, t) <= ChunksNamed(results, t) + 2
        /\ Len(pool) <= Len(results) + 2 * Cardinality(AllLinks(results))
        /\ \A i, j \in 1..Len(pool) : pool[i].chunk = pool[j].chunk => i = j
        /\ \A i \in 1..(Len(pool) - 1) : pool[i].score >= pool[i + 1].score

-----------------------------------------------------------------------------
(* Properties of the lexical list and of the rebuild decision *)

\* The raw score and the divisor of a lexical result's normalized score.
Raw(r) == r.score[1]

MaxScore(r) == r.score[2]

IndexSize == Cardinality(DOMAIN vector_index)

\* C21: the lexical list built inside retrieve has at most 2k entries, holds
\* only chunks whose raw BM25 score is above 0, is in non-increasing score
\* order, and the normalized score of every entry is its raw score divided
\* by the maximum raw score of the query, so it lies in (0, 1] and that of
\* the first entry is exactly 1; the vector search is asked for 2k results.
C21_LexicalListShape ==
    Retrieved =>
        /\ Len(bm25_results) <= 2 * k
        /\ \A i \in 1..Len(bm25_results) :
              /\ Raw(bm25_results[i]) > 0
              /\ Raw(bm25_results[i]) =
                    (IF bm25_results[i].chunk.idx = 0 THEN 2 ELSE 1)
              /\ MaxScore(bm25_results[i]) = Raw(bm25_results[1])
              /\ Raw(bm25_results[i]) <= MaxScore(bm25_results[i])
              /\ bm25_results[i].source = "bm25"
        /\ \A i \in 1..(Len(bm25_results) - 1) :
              Raw(bm25_results[i]) >= Raw(bm25_results[i + 1])
        /\ Len(vector_results) = Min(2 * k, IndexSize)

\* A retrieve whose lexical list and vector list were both cut to 2k, the
\* lexical list holding a chunk that scored below the maximum.
C21_Witness ==
    /\ Retrieved
    /\ Len(bm25_chunks) > 2 * k
    /\ IndexSize > 2 * k
    /\ Len(bm25_results) = 2 * k
    /\ Len(vector_results) = 2 * k
    /\ \E i \in 1..Len(bm25_results) :
          Raw(bm25_results[i]) < MaxScore(bm25_results[i])

\* C22: retrieve rebuilds the lexical index if and only if a non-empty corpus
\* is supplied and the dirty flag is set or the corpus differs from the
\* retained chunk list; every other call (no corpus, an empty corpus, an
\* equal corpus while fresh, or a call that raised) leaves the BM25 index,
\* the retained chunk list and the dirty flag as they were.
C22_RebuildIffNeeded ==
    [][/\ op' = "retrieve" =>
            IF /\ call'.corpus.given
               /\ call'.corpus.chunks # <<>>
               /\ (bm25_dirty \/ call'.corpus.chunks # bm25_chunks)
            THEN /\ bm25' = [built |-> TRUE, docs |-> call'.corpus.chunks]
                 /\ bm25_chunks' = call'.corpus.chunks
                 /\ ~bm25_dirty'
            ELSE UNCHANGED <<bm25, bm25_chunks, bm25_dirty>>
       /\ op' = "retrieve_raised" =>
            UNCHANGED <<bm25, bm25_chunks, bm25_dirty>>]_vars

\* A retrieve handed the empty list while the index was built and fresh:
\* the index and its chunk list are kept.
C22_Witness ==
    /\ Retrieved
    /\ EmptyCorpusGiven
    /\ ~call.dirty_before
    /\ bm25.built
    /\ bm25_chunks # <<>>
    /\ ~bm25_dirty

-----------------------------------------------------------------------------
(* Properties of the retriever used with a list its caller keeps *)

\* C28: in every retrieve that scores lexically the BM25 scores are aligned
\* one-to-one with the chunk list the index was built from: the list zipped
\* with the scores has the length and order it had at build time, also when
\* the caller changed, in place, the list it passed as chunks_for_bm25 and
\* passes it again.
C28_ScoresAlignedWithBuiltList ==
    (Retrieved /\ bm25.built /\ bm25_chunks # <<>>) => bm25_chunks = bm25.docs

FreshMeansBuiltFromRetained ==
    ~bm25_dirty => (bm25.built /\ bm25.docs = bm25_chunks)

MarkDirtyLeadsToDirty == op' = "mark_dirty" => bm25_dirty'

FreshOnlyByRebuild ==
    (bm25_dirty /\ ~bm25_dirty') =>
        /\ op' = "retrieve"
        /\ call'.corpus.given
        /\ call'.corpus.chunks # <<>>
        /\ bm25' = [built |-> TRUE, docs |-> call'.corpus.chunks]
        /\ bm25_chunks' = call'.corpus.chunks

\* C23: the lexical dirty flag is a two-state machine that starts dirty:
\* mark_dirty always leads to dirty, the only transition to fresh is a
\* rebuild inside _build_bm25_index, and in every reachable state where the
\* flag is fresh the BM25 index exists and was built from exactly the
\* retained chunk list.
C23_DirtyFlagMachine ==
    /\ [](op = "init" => bm25_dirty)
    /\ []FreshMeansBuiltFromRetained
    /\ [][MarkDirtyLeadsToDirty /\ FreshOnlyByRebuild]_vars

-----------------------------------------------------------------------------
(* Properties of concurrent retrieve calls *)

\* C24: under any interleaving of concurrent retrieve and mark_dirty calls on
\* one HybridRetriever rebuilds do not race: no scoring step pairs the scores
\* of one BM25 build with the chunk list of another build, and the flag is
\* never fresh while the index and the chunk list come from different builds.
\* (The index and the list are compared while no thread is between the
\* first and the last assignment of a rebuild.)
ScoresPairedWithOwnBuild ==
    \A t \in DOMAIN threads :
        threads[t].zipped # <<>> => threads[t].zipped = threads[t].scores_of

NoRebuildInProgress ==
    \A t \in DOMAIN threads : threads[t].pc \notin {"l51", "l52"}

FreshMeansOneBuild ==
    (DOMAIN threads # {} /\ NoRebuildInProgress /\ ~bm25_dirty) =>
        bm25.docs = bm25_chunks

C24_RebuildsDoNotRace == ScoresPairedWithOwnBuild /\ FreshMeansOneBuild

-----------------------------------------------------------------------------
(* Properties of sync_index and of the embedding cache *)

UnchangedIds ==
    {d \in DOMAIN files \cap DOMAIN manifest : Checksum(files[d]) = manifest[d]}

\* C26: sync_index returns added = the number of current document ids absent
\* from the manifest, deleted = the number of manifest ids without a current
\* file, updated = the number of ids in both whose current content hash
\* differs from the manifest's; common ids with an equal hash are not
\* touched, and after a normal return the manifest's ids are the current
\* files' ids.
C26_SyncCountsAndManifest ==
    [][op' = "sync" =>
          /\ counts'.added = Cardinality(DOMAIN files \ DOMAIN manifest)
          /\ counts'.deleted = Cardinality(DOMAIN manifest \ DOMAIN files)
          /\ counts'.updated =
                Cardinality((DOMAIN files \cap DOMAIN manifest) \ UnchangedIds)
          /\ \A d \in UnchangedIds :
                /\ manifest'[d] = manifest[d]
                /\ ChunksOfDoc(vector_index', d) = ChunksOfDoc(vector_index, d)
          /\ DOMAIN manifest' = DOMAIN files']_vars

\* A sync that found one document changed and one other difference.
C26_Witness ==
    /\ op = "sync"
    /\ counts.updated = 1
    /\ counts.added + counts.deleted = 1

\* The input positions whose key is not in the cache.
UncachedPositions ==
    {i \in 1..Len(texts) : CacheKey(texts[i]) \notin DOMAIN cache}

\* The provider calls that fetch n texts in batches of batch_size.
BatchesFor(n) == (n + batch_size - 1) \div batch_size

\* C27: the embedding cache is append-only: no embed removes a key or changes
\* the vector stored under a key that was cached; a text whose key is cached
\* is not sent to the provider (only the uncached positions are fetched, in
\* batches), and after a successful embed the key of every input text is in
\* the cache.
C27_CacheAppendOnly ==
    [][op' \in {"embed", "embed_raised", "retrieve", "retrieve_raised"} =>
          /\ \A key \in DOMAIN cache :
                key \in DOMAIN cache' /\ cache'[key] = cache[key]
          /\ \A key \in DOMAIN cache' \ DOMAIN cache :
                \E i \in UncachedPositions : key = CacheKey(texts[i])
          /\ Len(api_calls') <= BatchesFor(Cardinality(UncachedPositions))
          /\ op' \in {"embed", "retrieve"} =>
                /\ Len(api_calls') = BatchesFor(Cardinality(UncachedPositions))
                /\ \A i \in 1..Len(texts) : CacheKey(texts[i]) \in DOMAIN cache'
                /\ \A i \in 1..Len(texts) :
                      cache'[CacheKey(texts[i])] = Emb(texts[i])]_vars

\* Two different texts embedded one per batch with a single provider call:
\* one was cached and kept, the other was fetched and added.
C27_Witness ==
    /\ op = "embed"
    /\ Len(texts) = 2
    /\ texts[1] # texts[2]
    /\ batch_size = 1
    /\ Len(api_calls) = 1
    /\ DOMAIN cache = {CacheKey(t) : t \in Texts}

-----------------------------------------------------------------------------
(* Properties of the service when indexing fails *)

\* C25: if a sync_index call, a rebuild_index call or a watch_vault change
\* event ends abnormally after it has changed the vector index, the lexical
\* dirty flag is set, so the partial work still forces a lexical rebuild on
\* the next retrieval with a corpus.
C25_AbnormalEndLeavesDirty ==
    [][(/\ op' \in {"sync_raised", "rebuild_raised", "watch_raised"}
        /\ vector_index' # vector_index) => bm25_dirty']_vars

\* C29: if indexing a document fails after its manifest entry with the new
\* checksum was written, a later sync_index with unchanged files indexes the
\* document again: after every sync_index that returns, each manifest
\* document has the chunks of its current content in the vector index.
C29_SyncRepairsFailedIndexing ==
    op = "sync" =>
        \A d \in DOMAIN manifest :
            /\ d \in DOMAIN files
            /\ ParsedNow(d) \subseteq ChunksOfDoc(vector_index, d)

-----------------------------------------------------------------------------
(* Properties of the service entry points *)

\* C30: through the service entry points retrieve is always called without a
\* corpus, so across any sequence of query, capture, sync_index,
\* rebuild_index and watch events the lexical index stays unbuilt, the
\* lexical list is always empty, and the score of every returned result is
\* exactly vector_weight / (61 + its zero-based rank in the vector list).
C30_ServiceNeverBuildsLexical ==
    /\ bm25 = NoIndex
    /\ bm25_chunks = <<>>
    /\ bm25_results = <<>>
    /\ op = "query" =>
          /\ call.corpus = NoCorpus
          /\ Len(merged) = Min(k, Len(vector_results))
          /\ \A i \in 1..Len(merged) :
                /\ merged[i].chunk = vector_results[i].chunk
                /\ ScoreDen % (61 + (i - 1)) = 0
                /\ merged[i].score =
                      vector_weight * (ScoreDen \div (61 + (i - 1)))

\* A query for 2 results over an index of 3 chunks, after a sync.
C30_Witness ==
    /\ op = "query"
    /\ call.query = "q"
    /\ k = 2
    /\ in_sync
    /\ Len(vector_results) = 3
    /\ Len(merged) = 2

====
